---- MODULE Spec2Model ----
(***************************************************************************)
(* Model of the Wikipedia shortest-path service: the Redis-backed BFS      *)
(* engine (app/core/pathfinding.py), the store and queue adapters          *)
(* (app/infrastructure/cache.py, redis_queue.py), the link client          *)
(* (app/external/wikipedia.py), the search service (app/core/services.py)  *)
(* and the Celery task runtime (app/infrastructure/tasks.py).              *)
(***************************************************************************)
EXTENDS Integers, Sequences, FiniteSets, TLC

(* ------------------------------ bounds -------------------------------- *)

\* links in the whole graph (the link lists of all pages together)
MaxEdges == 3
\* largest configured max_depth explored (the constructor argument)
MaxDepthCap == 2
\* store / upstream failures injected into one run
MaxFaults == 1
\* housekeeping runs plus admin cache-clear requests in one run
MaxSweeps == 1
\* store / upstream failures injected into the attempts of one task
MaxTaskFaults == 4
\* get_links_bulk calls made on one client
MaxCalls == 2
\* find_path calls made on one PathFindingService
MaxFinds == 2
\* adapter operations called on one Redis instance
MaxOps == 2
\* queue operations the concurrent clients of one queue start
MaxQueueOps == 5
\* sessions that can be opened (one per search that reaches the BFS)
MaxSessions == 4

(* ----------------------------- constants ------------------------------ *)

\* the pages of the encyclopedia; requests name the core pages (or the empty title),
\* the other pages are reached through links only; two titles hold a colon
Pages == {"A", "B", "C", "D", "E", "A:B", "B:C"}
CorePages == {"A", "B", "C"}
Titles == CorePages \cup {""}
Workers == {1, 2}
\* a title as the run of its characters, words kept whole
Spelling(t) ==
    CASE t = "Category:C" -> <<"Category", ":", "C">>
      [] t = "List of C: D" -> <<"List", " ", "of", " ", "C", ":", " ", "D">>
      [] t = "List ofC: D" -> <<"List", " ", "of", "C", ":", " ", "D">>
      [] t = "A:B" -> <<"A", ":", "B">>
      [] t = "B:C" -> <<"B", ":", "C">>
      [] OTHER -> <<t>>

\* str.startswith
StartsWith(chars, prefix) ==
    Len(chars) >= Len(prefix) /\ SubSeq(chars, 1, Len(prefix)) = prefix

\* f"path:{request.start_page}:{request.end_page}"
ResultKey(s, e) == <<"path", ":">> \o Spelling(s) \o <<":">> \o Spelling(e)
ResultKeys == {ResultKey(s, e) : s \in Pages, e \in Pages}

\* PathResult(path=path, length=len(path), start_page=..., end_page=...,
\* search_time=..., nodes_explored=...)
PathResult(path, s, e, search_time, nodes_explored) ==
    [path |-> path, length |-> Len(path), start_page |-> s, end_page |-> e,
     search_time |-> search_time, nodes_explored |-> nodes_explored]

\* what cache_service.get answers for an absent key
NoResult ==
    [path |-> <<>>, length |-> 0, start_page |-> "", end_page |-> "", search_time |-> 0,
     nodes_explored |-> 0]

\* session ids: one fresh uuid4 per search that reaches the BFS
Sids == 1 .. MaxSessions
NoSid == 0
LinkLists == UNION {[1 .. n -> CorePages] : n \in 0 .. MaxEdges}
NoLinks == [p \in Pages |-> <<>>]
\* every link graph over the core pages with at most MaxEdges links: ordered link
\* lists, duplicates, self-links and cycles included
SmallGraphs ==
    {[p \in Pages |-> IF p \in CorePages THEN g[p] ELSE <<>>] :
        g \in {h \in [CorePages -> LinkLists] :
                  Len(h["A"]) + Len(h["B"]) + Len(h["C"]) <= MaxEdges}}
\* the two-hop graph of test_find_shortest_path_two_hops
TwoHopGraph == [NoLinks EXCEPT !["A"] = <<"C", "D">>, !["C"] = <<"B", "E">>, !["D"] = <<"E">>]
\* two routes of different length whose first vertices are both links of the start
ForkGraph == [NoLinks EXCEPT !["A"] = <<"C", "D">>, !["D"] = <<"E">>, !["E"] = <<"B">>,
                             !["C"] = <<"B">>]
\* the chain of test_find_shortest_path_max_depth_reached, one page shorter
ChainGraph == [NoLinks EXCEPT !["A"] = <<"C">>, !["C"] = <<"D">>, !["D"] = <<"E">>,
                              !["E"] = <<"B">>]
\* two routes of the same length: C and D are links of the start and both link to B
TieGraph == [NoLinks EXCEPT !["A"] = <<"C", "D">>, !["C"] = <<"B">>, !["D"] = <<"B">>]
Graphs == SmallGraphs \cup {TwoHopGraph, ForkGraph, ChainGraph, TieGraph}

VARIABLES
    graph,          \* upstream: page -> list of outgoing article links
    maxDepth,       \* the configured max_depth handed to the path finder
    algorithm,      \* per worker: the path finder the factory built, "bfs" or "bidirectional"
    queue,          \* store: bfs_queue:{sid}, a list of {page, depth}
    visited,        \* store: the titles t with a key bfs_visited:{sid}:{t}
    paths,          \* store: bfs_paths:{sid}:{t}, <<>> when the key is absent
    linkCache,      \* store: the titles t with a key wiki_links:{t}
    pathCache,      \* store: path:{start}:{end}, NoResult when the key is absent
    nextSid,        \* the next unused session id
    pc,             \* per worker: position inside find_shortest_path
    sid,            \* per worker: session_id of the running search
    startPage,      \* per worker: start_page argument
    endPage,        \* per worker: end_page argument
    cur,            \* per worker: current_item popped from the queue
    curPath,        \* per worker: current_path
    links,          \* per worker: the links of current_page not yet processed
    nodesExplored,  \* per worker: nodes_explored
    outcome,        \* per worker: what find_shortest_path returned or raised
    trace,          \* per worker: the items the search pushed (with the page whose link
                    \* each was) and popped so far, in order
    workload,       \* the (start, end) requests callers may submit
    sweepsLeft,     \* housekeeping runs and admin cache-clear requests still to come
    faultsLeft,     \* failures the environment may still inject
    faulted,        \* per worker: a store/upstream operation of the search failed
    dropped,        \* per worker: a failure was caught, logged, and the search went on
    cleanupFailed,  \* per worker: a step of _cleanup_search_state raised
    lastOp,         \* the last operation on a session key: who, whose session, what
    pageChecks,     \* per worker: the page_exists calls of the current call, in order
    wiki,           \* upstream: redirects and pages as the MediaWiki API serves them
    client,         \* WikipediaClient: its wiki_links cache and the get_links_bulk calls made
    task,           \* the find_path_task record (state, retries, attempts, result)
    service,        \* PathFindingService: the find_path call under way and the calls made
    adapters        \* RedisCache and RedisQueue on one key and one list, and the calls made

vars == <<graph, maxDepth, algorithm, queue, visited, paths, linkCache, pathCache, nextSid,
          pc, sid, startPage, endPage, cur, curPath, links, nodesExplored,
          outcome, trace, workload, sweepsLeft, faultsLeft, faulted, dropped, cleanupFailed,
          lastOp, pageChecks, wiki, client, task, service, adapters>>

storeVars == <<queue, visited, paths, linkCache, pathCache>>
envVars ==
    <<graph, maxDepth, algorithm, workload, sweepsLeft, pageChecks, wiki, client, service, adapters>>
\* the environment but for the page_exists log
fixedVars == <<graph, maxDepth, algorithm, workload, sweepsLeft, wiki, client, service, adapters>>

NoOutcome == [kind |-> "none", path |-> <<>>]
NoItem == [page |-> "", depth |-> 0]
NoTrace == [pushed |-> <<>>, popped |-> <<>>]
NoService == [stage |-> "idle", start_page |-> "", end_page |-> "", log |-> <<>>]
Clients == {1, 2}
\* no pop_batch call was made yet
NoBatch == [count |-> 0, before |-> <<>>, items |-> <<>>, after |-> <<>>, raised |-> "none"]
NoAdapters ==
    [kv |-> <<>>, list |-> <<>>, calls |-> <<>>, order |-> <<>>, popped |-> <<>>,
     batches |-> {}, inflight |-> [c \in Clients |-> <<>>], made |-> 0, started |-> 0,
     lastBatch |-> NoBatch]
NoOp == [role |-> "none", worker |-> {}, sids |-> {}, kind |-> "none"]
NoTask == [state |-> "NONE", prev |-> "NONE", start_page |-> "", end_page |-> "", retries |-> 0,
           attempts |-> 0, code |-> "", path |-> <<>>, stage |-> "none",
           found |-> <<>>, history |-> <<>>, progress |-> <<>>, fine |-> 0,
           signalled |-> FALSE, popsAtSignal |-> 0]

(* ------------------------- adapters: failures ------------------------- *)

\* What each adapter operation raises when the Redis call under it fails.
\* RedisCache.get/exists/clear_pattern and RedisQueue.pop/length/clear catch
\* redis.RedisError and raise CacheConnectionError. RedisCache.set and
\* RedisQueue.push name json.JSONEncodeError in their except clause; the json
\* module has no such attribute, so evaluating the clause raises AttributeError
\* and that is what leaves the adapter.
\* the exception classes the except clause of each operation names
ExceptNames(op) ==
    IF op \in {"set", "set_if_not_exists", "push", "push_front", "push_batch"}
    THEN {"redis.RedisError", "json.JSONEncodeError"}
    ELSE IF op \in {"get", "pop", "pop_batch", "peek"}
    THEN {"redis.RedisError", "json.JSONDecodeError"}
    ELSE {"redis.RedisError"}

\* the body of the except clause: get_ttl returns -1, peek returns None, every
\* other operation raises CacheConnectionError
Handler(op) ==
    IF op = "get_ttl" THEN [raises |-> "none", returns |-> "-1"]
    ELSE IF op = "peek" THEN [raises |-> "none", returns |-> "None"]
    ELSE [raises |-> "CacheConnectionError", returns |-> ""]

\* what leaves the operation when its Redis command raises redis.RedisError:
\* matching the except clause evaluates the names of its tuple first, and the json
\* module defines JSONDecodeError but no JSONEncodeError
OnRedisError(op) ==
    IF \E name \in ExceptNames(op) : name \notin {"redis.RedisError", "json.JSONDecodeError"}
    THEN [raises |-> "AttributeError", returns |-> ""]
    ELSE Handler(op)

CacheGetRaises == OnRedisError("get").raises
CacheExistsRaises == OnRedisError("exists").raises
CacheSetRaises == OnRedisError("set").raises
QueuePushRaises == OnRedisError("push").raises
QueuePopRaises == OnRedisError("pop").raises
QueueLengthRaises == OnRedisError("length").raises
\* WikipediaClient._process_batch turns a requests.RequestException into WikipediaAPIError
UpstreamRaises == "WikipediaAPIError"

(* -------------------------- adapters: data ---------------------------- *)

\* mutant: the item goes to the head (lpush, what push_front does)
QueuePushAtHead(q, item) == <<item>> \o q
\* RedisQueue.push: rpush, the item goes to the tail
QueuePush(q, item) == Append(q, item)
\* mutant: the item is read at the tail
QueueLast(q) == q[Len(q)]
\* RedisQueue.pop: lpop, the item comes from the head
QueueFront(q) == Head(q)
QueueRest(q) == Tail(q)

\* mutant: the link is appended to the path of the parent of the current page
ExtendPathOfParent(path, link) == Append(SubSeq(path, 1, Len(path) - 1), link)
\* current_path + [link]
ExtendPath(path, link) == Append(path, link)

(* --------------------------- key patterns ----------------------------- *)

\* A Redis glob used by clear_pattern, by the namespaces and the session it matches.
AnySid == 0 - 1
SessionNamespaces == {"bfs_queue", "bfs_visited", "bfs_paths"}
VisitedPattern(s) == [ns |-> {"bfs_visited"}, sid |-> s]
PathsPattern(s) == [ns |-> {"bfs_paths"}, sid |-> s]
\* "bfs_*": every key whose name starts with bfs_
BfsStarPattern == [ns |-> SessionNamespaces, sid |-> AnySid]
WikiLinksPattern == [ns |-> {"wiki_links"}, sid |-> AnySid]
Matches(pat, ns, s) == ns \in pat.ns /\ (pat.sid = AnySid \/ pat.sid = s)

\* the sessions that own at least one key matching pat
Touched(pat) ==
    {s \in Sids : \/ Matches(pat, "bfs_queue", s) /\ queue[s] # <<>>
                  \/ Matches(pat, "bfs_visited", s) /\ visited[s] # {}
                  \/ Matches(pat, "bfs_paths", s) /\ \E t \in Pages : paths[s][t] # <<>>}

\* RedisCache.clear_pattern: keys(pattern), then delete(*keys)
ClearPattern(pat) ==
    /\ queue' = [s \in Sids |-> IF Matches(pat, "bfs_queue", s) THEN <<>> ELSE queue[s]]
    /\ visited' = [s \in Sids |-> IF Matches(pat, "bfs_visited", s) THEN {} ELSE visited[s]]
    /\ paths' = [s \in Sids |-> IF Matches(pat, "bfs_paths", s)
                                  THEN [t \in Pages |-> <<>>] ELSE paths[s]]
    /\ linkCache' = IF Matches(pat, "wiki_links", AnySid) THEN {} ELSE linkCache
    /\ pathCache' = IF Matches(pat, "path", AnySid)
                      THEN [k \in DOMAIN pathCache |-> NoResult] ELSE pathCache

(* ------------------------- worker bookkeeping ------------------------- *)

wkVars ==
    <<pc, sid, startPage, endPage, cur, curPath, links, nodesExplored, outcome, trace>>

Goto(w, p) == pc' = [pc EXCEPT ![w] = p]

\* an exception leaves _perform_bfs_search: the finally block of find_shortest_path runs
Raise(w, e) ==
    /\ pc' = [pc EXCEPT ![w] = "cleanup_queue"]
    /\ outcome' = [outcome EXCEPT ![w] = [kind |-> e, path |-> <<>>]]

\* the environment makes the operation of this step fail
Fault(w) ==
    /\ faultsLeft > 0
    /\ faultsLeft' = faultsLeft - 1
    /\ faulted' = [faulted EXCEPT ![w] = TRUE]

NoFault == UNCHANGED <<faultsLeft, faulted>>

Touch(w, sids, kind) ==
    lastOp' = [role |-> "search", worker |-> {w}, sids |-> sids, kind |-> kind]

\* an operation on session keys by a process that is not a search
TouchBy(role, sids, kind) ==
    lastOp' = [role |-> role, worker |-> {}, sids |-> sids, kind |-> kind]

(* ------------------- BFS engine: find_shortest_path ------------------- *)

Running(w) == pc[w] \notin {"idle", "done"}

\* what the upstream does with a page_exists request
PageAnswers == {"exists", "missing", "transport_error"}

\* WikipediaClient.page_exists: True for a page the response does not mark missing,
\* False for a missing page and for a request that raised RequestException
PageExists(answer) == answer = "exists"

\* one page_exists call: the title, what the upstream did, what the call returned
Check(title, answer) == [title |-> title, answer |-> answer, exists |-> PageExists(answer)]

\* the page_exists calls of find_shortest_path: the end page is looked up only when
\* the start page exists
EngineChecks(s, e, startAnswer, endAnswer) ==
    IF PageExists(startAnswer) THEN <<Check(s, startAnswer), Check(e, endAnswer)>>
    ELSE <<Check(s, startAnswer)>>

NeverSamePage(s, e) == FALSE

\* if start_page == end_page
SamePage(s, e) == s = e

ReportedMissingStartOnly(startExists, endExists) == ~startExists

\* if not page_exists(start_page) ... if not page_exists(end_page)
ReportedMissing(startExists, endExists) == ~startExists \/ ~endExists

\* find_shortest_path up to the session allocation: the empty-title and same-page
\* checks, the two page_exists calls (startExists, endExists are the upstream's
\* answers) and the fresh session id.
FindShortestPathEnter(w, s, e, startAnswer, endAnswer) ==
    /\ startPage' = [startPage EXCEPT ![w] = s]
    /\ endPage' = [endPage EXCEPT ![w] = e]
    /\ cur' = [cur EXCEPT ![w] = NoItem]
    /\ curPath' = [curPath EXCEPT ![w] = <<>>]
    /\ links' = [links EXCEPT ![w] = <<>>]
    /\ faulted' = [faulted EXCEPT ![w] = FALSE]
    /\ dropped' = [dropped EXCEPT ![w] = FALSE]
    /\ cleanupFailed' = [cleanupFailed EXCEPT ![w] = FALSE]
    /\ trace' = [trace EXCEPT ![w] = NoTrace]
    /\ IF s = "" \/ e = ""
         THEN /\ outcome' = [outcome EXCEPT ![w] = [kind |-> "InvalidPageError", path |-> <<>>]]
              /\ pc' = [pc EXCEPT ![w] = "done"]
              /\ nodesExplored' = [nodesExplored EXCEPT ![w] = 0]
              /\ sid' = [sid EXCEPT ![w] = NoSid]
              /\ UNCHANGED nextSid
              /\ pageChecks' = [pageChecks EXCEPT ![w] = <<>>]
       ELSE IF SamePage(s, e)
         THEN /\ outcome' = [outcome EXCEPT ![w] = [kind |-> "path", path |-> <<s>>]]
              /\ pc' = [pc EXCEPT ![w] = "done"]
              /\ nodesExplored' = [nodesExplored EXCEPT ![w] = 1]
              /\ sid' = [sid EXCEPT ![w] = NoSid]
              /\ UNCHANGED nextSid
              /\ pageChecks' = [pageChecks EXCEPT ![w] = <<>>]
       ELSE IF ReportedMissing(PageExists(startAnswer), PageExists(endAnswer))
         THEN /\ outcome' = [outcome EXCEPT ![w] = [kind |-> "InvalidPageError", path |-> <<>>]]
              /\ pc' = [pc EXCEPT ![w] = "done"]
              /\ nodesExplored' = [nodesExplored EXCEPT ![w] = 0]
              /\ sid' = [sid EXCEPT ![w] = NoSid]
              /\ UNCHANGED nextSid
              /\ pageChecks' = [pageChecks EXCEPT ![w] =
                                   EngineChecks(s, e, startAnswer, endAnswer)]
       ELSE /\ nextSid \in Sids
            /\ pageChecks' = [pageChecks EXCEPT ![w] =
                                 EngineChecks(s, e, startAnswer, endAnswer)]
            /\ outcome' = [outcome EXCEPT ![w] = NoOutcome]
            /\ pc' = [pc EXCEPT ![w] = "seed_push"]
            /\ nodesExplored' = [nodesExplored EXCEPT ![w] = 0]
            /\ sid' = [sid EXCEPT ![w] = nextSid]
            /\ nextSid' = nextSid + 1

\* a caller (a test, a service) invokes find_shortest_path directly
FindShortestPath(w) ==
    /\ pc[w] = "idle"
    /\ \E r \in workload, startAnswer \in PageAnswers, endAnswer \in PageAnswers :
          FindShortestPathEnter(w, r[1], r[2], startAnswer, endAnswer)
    /\ UNCHANGED <<fixedVars, storeVars, faultsLeft, lastOp, task>>

\* queue_service.push(queue_key, {"page": start_page, "depth": 0})
SeedPush(w) ==
    /\ pc[w] = "seed_push"
    /\ \/ /\ queue' = [queue EXCEPT ![sid[w]] = QueuePush(@, [page |-> startPage[w], depth |-> 0])]
          /\ trace' = [trace EXCEPT ![w].pushed =
                          Append(@, [page |-> startPage[w], depth |-> 0, parent |-> ""])]
          /\ Goto(w, "seed_visited")
          /\ Touch(w, {sid[w]}, "write")
          /\ NoFault
          /\ UNCHANGED outcome
       \/ /\ Fault(w)
          /\ Raise(w, QueuePushRaises)
          /\ UNCHANGED <<queue, lastOp, trace>>
    /\ UNCHANGED <<envVars, visited, paths, linkCache, pathCache, nextSid, sid, startPage,
                   endPage, cur, curPath, links, nodesExplored, dropped, cleanupFailed, task>>

\* cache_service.set(f"{visited_key}:{start_page}", True, ttl=3600)
SeedVisited(w) ==
    /\ pc[w] = "seed_visited"
    /\ \/ /\ visited' = [visited EXCEPT ![sid[w]] = @ \cup {startPage[w]}]
          /\ Goto(w, "seed_path")
          /\ Touch(w, {sid[w]}, "write")
          /\ NoFault
          /\ UNCHANGED outcome
       \/ /\ Fault(w)
          /\ Raise(w, CacheSetRaises)
          /\ UNCHANGED <<visited, lastOp>>
    /\ UNCHANGED <<envVars, queue, paths, linkCache, pathCache, nextSid, sid, startPage,
                   endPage, cur, curPath, links, nodesExplored, dropped, cleanupFailed, task, trace>>

\* cache_service.set(f"{paths_key}:{start_page}", [start_page], ttl=3600)
SeedPath(w) ==
    /\ pc[w] = "seed_path"
    /\ \/ /\ paths' = [paths EXCEPT ![sid[w]][startPage[w]] = <<startPage[w]>>]
          /\ Goto(w, "loop")
          /\ Touch(w, {sid[w]}, "write")
          /\ NoFault
          /\ UNCHANGED outcome
       \/ /\ Fault(w)
          /\ Raise(w, CacheSetRaises)
          /\ UNCHANGED <<paths, lastOp>>
    /\ UNCHANGED <<envVars, queue, visited, linkCache, pathCache, nextSid, sid, startPage,
                   endPage, cur, curPath, links, nodesExplored, dropped, cleanupFailed, task, trace>>

\* while self.queue_service.length(queue_key) > 0; a drained queue ends the loop
\* and the function raises PathNotFoundError
LoopCheck(w) ==
    /\ pc[w] = "loop"
    /\ \/ /\ queue[sid[w]] # <<>>
          /\ Goto(w, "pop")
          /\ Touch(w, {sid[w]}, "read")
          /\ NoFault
          /\ UNCHANGED outcome
       \/ /\ queue[sid[w]] = <<>>
          /\ Raise(w, "PathNotFoundError")
          /\ Touch(w, {sid[w]}, "read")
          /\ NoFault
       \/ /\ Fault(w)
          /\ Raise(w, QueueLengthRaises)
          /\ UNCHANGED lastOp
    /\ UNCHANGED <<envVars, storeVars, nextSid, sid, startPage, endPage, cur, curPath,
                   links, nodesExplored, dropped, cleanupFailed, task, trace>>

\* the depth limit: if current_depth > self.max_depth: break
DepthExceeded(depth, bound) == depth > bound

\* max_depth: int = 6, the default of RedisBasedBFSPathFinder.__init__
DefaultMaxDepth == 6

\* self.max_depth of the RedisBasedBFSPathFinder that runs the search: the factory
\* hands the configured max_depth to either finder; BidirectionalBFSPathFinder keeps
\* it in its own field and delegates to RedisBasedBFSPathFinder(wikipedia_client,
\* cache_service, queue_service), built without it
SearchDepth(a, configured) == IF a = "bidirectional" THEN DefaultMaxDepth ELSE configured

\* current_item = pop(queue_key); a missing item or an item beyond the depth limit
\* breaks out of the loop
\* the progress_callback of the path finder: get_pathfinding_service(algorithm)
\* passes none, and the factory's default is None
ProgressCallback == "None"

\* self.progress_callback and nodes_explored % 3 == 0
ReportsProgress(nodes_explored) == ProgressCallback # "None" /\ nodes_explored % 3 = 0

Pop(w) ==
    /\ pc[w] = "pop"
    /\ \/ /\ queue[sid[w]] # <<>>
          /\ queue' = [queue EXCEPT ![sid[w]] = QueueRest(@)]
          /\ cur' = [cur EXCEPT ![w] = QueueFront(queue[sid[w]])]
          /\ nodesExplored' = [nodesExplored EXCEPT ![w] = @ + 1]
          /\ trace' = [trace EXCEPT ![w].popped = Append(@, QueueFront(queue[sid[w]]))]
          /\ task' = IF ReportsProgress(nodesExplored[w] + 1)
                      THEN [task EXCEPT !.fine = @ + 1] ELSE task
          /\ IF DepthExceeded(QueueFront(queue[sid[w]]).depth,
                              SearchDepth(algorithm[w], maxDepth))
               THEN Raise(w, "PathNotFoundError")
               ELSE Goto(w, "get_path") /\ UNCHANGED outcome
          /\ Touch(w, {sid[w]}, "write")
          /\ NoFault
       \/ /\ queue[sid[w]] = <<>>
          /\ Raise(w, "PathNotFoundError")
          /\ Touch(w, {sid[w]}, "read")
          /\ NoFault
          /\ UNCHANGED <<queue, cur, nodesExplored, task, trace>>
       \/ /\ Fault(w)
          /\ Raise(w, QueuePopRaises)
          /\ UNCHANGED <<queue, cur, nodesExplored, lastOp, task, trace>>
    /\ UNCHANGED <<envVars, visited, paths, linkCache, pathCache, nextSid, sid, startPage,
                   endPage, curPath, links, dropped, cleanupFailed>>

\* current_path = cache_service.get(f"{paths_key}:{current_page}"); a vertex
\* without a stored path is skipped
GetPath(w) ==
    /\ pc[w] = "get_path"
    /\ \/ /\ paths[sid[w]][cur[w].page] # <<>>
          /\ curPath' = [curPath EXCEPT ![w] = paths[sid[w]][cur[w].page]]
          /\ Goto(w, "get_links")
          /\ Touch(w, {sid[w]}, "read")
          /\ NoFault
          /\ UNCHANGED outcome
       \/ /\ paths[sid[w]][cur[w].page] = <<>>
          /\ curPath' = [curPath EXCEPT ![w] = <<>>]
          /\ Goto(w, "loop")
          /\ Touch(w, {sid[w]}, "read")
          /\ NoFault
          /\ UNCHANGED outcome
       \/ /\ Fault(w)
          /\ Raise(w, CacheGetRaises)
          /\ UNCHANGED <<curPath, lastOp>>
    /\ UNCHANGED <<envVars, storeVars, nextSid, sid, startPage, endPage, cur, links,
                   nodesExplored, dropped, cleanupFailed, task, trace>>

\* _perform_bfs_search, the handler around get_links_bulk: only these are re-raised,
\* any other exception is logged and the vertex skipped
LinkFetchReraised(e) == e \in {"WikipediaAPIError", "CacheConnectionError"}

\* links = get_links_bulk([current_page])[current_page]: WikipediaClient reads
\* wiki_links:{page}; on a miss it fetches from the upstream and writes the cache
GetLinksFailure(w, e) ==
    /\ Fault(w)
    /\ IF LinkFetchReraised(e)
         THEN Raise(w, e) /\ UNCHANGED dropped
         ELSE /\ Goto(w, "loop")
              /\ dropped' = [dropped EXCEPT ![w] = TRUE]
              /\ UNCHANGED outcome
    /\ UNCHANGED <<links, linkCache>>

\* mutant: the links of a page are iterated from the last to the first
RECURSIVE LinksReversed(_, _)
LinksReversed(g, page) ==
    IF g[page] = <<>> THEN <<>>
    ELSE Append(LinksReversed([g EXCEPT ![page] = Tail(@)], page), Head(g[page]))
\* links = links_bulk.get(current_page, []): the list in the order the client returned it
Links(g, page) == g[page]

GetLinks(w) ==
    /\ pc[w] = "get_links"
    /\ \/ /\ cur[w].page \in linkCache
          /\ links' = [links EXCEPT ![w] = Links(graph, cur[w].page)]
          /\ Goto(w, "link")
          /\ NoFault
          /\ UNCHANGED <<linkCache, outcome, dropped>>
       \/ /\ cur[w].page \notin linkCache
          /\ links' = [links EXCEPT ![w] = Links(graph, cur[w].page)]
          /\ linkCache' = linkCache \cup {cur[w].page}
          /\ Goto(w, "link")
          /\ NoFault
          /\ UNCHANGED <<outcome, dropped>>
       \/ GetLinksFailure(w, CacheGetRaises)
       \/ /\ cur[w].page \notin linkCache
          /\ GetLinksFailure(w, UpstreamRaises)
       \/ /\ cur[w].page \notin linkCache
          /\ GetLinksFailure(w, CacheSetRaises)
    /\ UNCHANGED <<envVars, queue, visited, paths, pathCache, nextSid, sid, startPage,
                   endPage, cur, curPath, nodesExplored, cleanupFailed, lastOp, task, trace>>

\* _perform_bfs_search, the handler around the per-link store operations
LinkStoreReraised(e) == e = "CacheConnectionError"

\* a store operation on a link failed with e: re-raise it or go on with the next link
LinkFailure(w, e) ==
    /\ Fault(w)
    /\ IF LinkStoreReraised(e)
         THEN Raise(w, e) /\ UNCHANGED <<links, dropped>>
         ELSE /\ Goto(w, "link")
              /\ links' = [links EXCEPT ![w] = Tail(@)]
              /\ dropped' = [dropped EXCEPT ![w] = TRUE]
              /\ UNCHANGED outcome

NeverVisited(s, link) == FALSE

\* cache_service.exists(f"{visited_key}:{link}")
AlreadyVisited(s, link) == link \in visited[s]

\* for link in links: the target test, then exists(f"{visited_key}:{link}")
ProcessLink(w) ==
    /\ pc[w] = "link"
    /\ \/ /\ links[w] = <<>>
          /\ Goto(w, "log_len")
          /\ NoFault
          /\ UNCHANGED <<links, outcome, dropped, lastOp>>
       \/ /\ links[w] # <<>>
          /\ Head(links[w]) = endPage[w]
          /\ outcome' = [outcome EXCEPT ![w] =
                            [kind |-> "path", path |-> ExtendPath(curPath[w], Head(links[w]))]]
          /\ Goto(w, "cleanup_queue")
          /\ NoFault
          /\ UNCHANGED <<links, dropped, lastOp>>
       \/ /\ links[w] # <<>>
          /\ Head(links[w]) # endPage[w]
          /\ AlreadyVisited(sid[w], Head(links[w]))
          /\ links' = [links EXCEPT ![w] = Tail(@)]
          /\ Touch(w, {sid[w]}, "read")
          /\ NoFault
          /\ UNCHANGED <<pc, outcome, dropped>>
       \/ /\ links[w] # <<>>
          /\ Head(links[w]) # endPage[w]
          /\ ~AlreadyVisited(sid[w], Head(links[w]))
          /\ Goto(w, "mark")
          /\ Touch(w, {sid[w]}, "read")
          /\ NoFault
          /\ UNCHANGED <<links, outcome, dropped>>
       \/ /\ links[w] # <<>>
          /\ Head(links[w]) # endPage[w]
          /\ LinkFailure(w, CacheExistsRaises)
          /\ UNCHANGED lastOp
    /\ UNCHANGED <<envVars, storeVars, nextSid, sid, startPage, endPage, cur, curPath,
                   nodesExplored, cleanupFailed, task, trace>>

\* cache_service.set(visited_check_key, True, ttl=3600)
MarkVisited(w) ==
    /\ pc[w] = "mark"
    /\ \/ /\ visited' = [visited EXCEPT ![sid[w]] = @ \cup {Head(links[w])}]
          /\ Goto(w, "store_path")
          /\ Touch(w, {sid[w]}, "write")
          /\ NoFault
          /\ UNCHANGED <<links, outcome, dropped>>
       \/ /\ LinkFailure(w, CacheSetRaises)
          /\ UNCHANGED <<visited, lastOp>>
    /\ UNCHANGED <<envVars, queue, paths, linkCache, pathCache, nextSid, sid, startPage,
                   endPage, cur, curPath, nodesExplored, cleanupFailed, task, trace>>

\* cache_service.set(f"{paths_key}:{link}", current_path + [link], ttl=3600)
StorePath(w) ==
    /\ pc[w] = "store_path"
    /\ \/ /\ paths' = [paths EXCEPT ![sid[w]][Head(links[w])] =
                          ExtendPath(curPath[w], Head(links[w]))]
          /\ Goto(w, "enqueue")
          /\ Touch(w, {sid[w]}, "write")
          /\ NoFault
          /\ UNCHANGED <<links, outcome, dropped>>
       \/ /\ LinkFailure(w, CacheSetRaises)
          /\ UNCHANGED <<paths, lastOp>>
    /\ UNCHANGED <<envVars, queue, visited, linkCache, pathCache, nextSid, sid, startPage,
                   endPage, cur, curPath, nodesExplored, cleanupFailed, task, trace>>

\* queue_service.push(queue_key, {"page": link, "depth": current_depth + 1})
Enqueue(w) ==
    /\ pc[w] = "enqueue"
    /\ \/ /\ queue' = [queue EXCEPT ![sid[w]] =
                          QueuePush(@, [page |-> Head(links[w]), depth |-> cur[w].depth + 1])]
          /\ trace' = [trace EXCEPT ![w].pushed =
                          Append(@, [page |-> Head(links[w]), depth |-> cur[w].depth + 1,
                                     parent |-> cur[w].page])]
          /\ links' = [links EXCEPT ![w] = Tail(@)]
          /\ Goto(w, "link")
          /\ Touch(w, {sid[w]}, "write")
          /\ NoFault
          /\ UNCHANGED <<outcome, dropped>>
       \/ /\ LinkFailure(w, QueuePushRaises)
          /\ UNCHANGED <<queue, lastOp, trace>>
    /\ UNCHANGED <<envVars, visited, paths, linkCache, pathCache, nextSid, sid, startPage,
                   endPage, cur, curPath, nodesExplored, cleanupFailed, task>>

\* logger.info(f"... queue length: {self.queue_service.length(queue_key)}") after the
\* links of a vertex: one more store call, outside every try block
LogLength(w) ==
    /\ pc[w] = "log_len"
    /\ \/ /\ Goto(w, "loop")
          /\ Touch(w, {sid[w]}, "read")
          /\ NoFault
          /\ UNCHANGED outcome
       \/ /\ Fault(w)
          /\ Raise(w, QueueLengthRaises)
          /\ UNCHANGED lastOp
    /\ UNCHANGED <<envVars, storeVars, nextSid, sid, startPage, endPage, cur, curPath,
                   links, nodesExplored, dropped, cleanupFailed, task, trace>>

(* ----------------------- _cleanup_search_state ------------------------ *)

\* an exception inside _cleanup_search_state is caught and logged; the steps after
\* the failing one are not run
\* mutant: the exception of the cleanup step leaves find_shortest_path
CleanupErrorRaised(pending, e) == [kind |-> e, path |-> <<>>]
\* except Exception as e: logger.error(...): nothing is raised out of the finally
\* block, the pending return value or exception of the search stands
CleanupErrorLogged(pending, e) == pending

CleanupAbort(w) ==
    /\ faultsLeft > 0
    /\ faultsLeft' = faultsLeft - 1
    /\ UNCHANGED faulted
    /\ Goto(w, "done")
    /\ outcome' = [outcome EXCEPT ![w] = CleanupErrorLogged(@, OnRedisError("clear").raises)]
    /\ cleanupFailed' = [cleanupFailed EXCEPT ![w] = TRUE]
    /\ UNCHANGED <<storeVars, lastOp>>

\* mutant: the session id is left out of the glob ("bfs_visited:*")
CleanupVisitedAllSessions(s) == [ns |-> {"bfs_visited"}, sid |-> AnySid]
\* mutant: the second glob is built from visited_key as well
CleanupPathsFromVisitedKey(s) == VisitedPattern(s)
\* the globs _cleanup_search_state builds: f"{visited_key}:*" and f"{paths_key}:*"
CleanupVisitedPattern(s) == VisitedPattern(s)
CleanupPathsPattern(s) == PathsPattern(s)

\* queue_service.clear(queue_key)
CleanupQueue(w) ==
    /\ pc[w] = "cleanup_queue"
    /\ \/ /\ queue' = [queue EXCEPT ![sid[w]] = <<>>]
          /\ Goto(w, "cleanup_visited")
          /\ Touch(w, {sid[w]}, "delete")
          /\ NoFault
          /\ UNCHANGED <<visited, paths, linkCache, pathCache, cleanupFailed, outcome>>
       \/ CleanupAbort(w)
    /\ UNCHANGED <<envVars, nextSid, sid, startPage, endPage, cur, curPath, links,
                   nodesExplored, dropped, task, trace>>

\* cache_service.clear_pattern(f"{visited_key}:*")
CleanupVisited(w) ==
    /\ pc[w] = "cleanup_visited"
    /\ \/ /\ ClearPattern(CleanupVisitedPattern(sid[w]))
          /\ Goto(w, "cleanup_paths")
          /\ Touch(w, Touched(CleanupVisitedPattern(sid[w])) \cup {sid[w]}, "delete")
          /\ NoFault
          /\ UNCHANGED <<cleanupFailed, outcome>>
       \/ CleanupAbort(w)
    /\ UNCHANGED <<envVars, nextSid, sid, startPage, endPage, cur, curPath, links,
                   nodesExplored, dropped, task, trace>>

\* cache_service.clear_pattern(f"{paths_key}:*"), then the finally block ends and
\* find_shortest_path returns the result or lets the pending exception go on
CleanupPaths(w) ==
    /\ pc[w] = "cleanup_paths"
    /\ \/ /\ ClearPattern(CleanupPathsPattern(sid[w]))
          /\ Goto(w, "done")
          /\ Touch(w, Touched(CleanupPathsPattern(sid[w])) \cup {sid[w]}, "delete")
          /\ NoFault
          /\ UNCHANGED <<cleanupFailed, outcome>>
       \/ CleanupAbort(w)
    /\ UNCHANGED <<envVars, nextSid, sid, startPage, endPage, cur, curPath, links,
                   nodesExplored, dropped, task, trace>>

\* one step of the search a worker is running
SearchStep(w) ==
    \/ SeedPush(w)
    \/ SeedVisited(w)
    \/ SeedPath(w)
    \/ LoopCheck(w)
    \/ Pop(w)
    \/ GetPath(w)
    \/ GetLinks(w)
    \/ ProcessLink(w)
    \/ MarkVisited(w)
    \/ StorePath(w)
    \/ Enqueue(w)
    \/ LogLength(w)
    \/ CleanupQueue(w)
    \/ CleanupVisited(w)
    \/ CleanupPaths(w)

(* ------------------- specification: one direct search ----------------- *)

EmptyStore ==
    /\ queue = [s \in Sids |-> <<>>]
    /\ visited = [s \in Sids |-> {}]
    /\ paths = [s \in Sids |-> [t \in Pages |-> <<>>]]
    /\ pathCache = [k \in ResultKeys |-> NoResult]

IdleWorkers ==
    /\ nextSid = 1
    /\ pc = [w \in Workers |-> "idle"]
    /\ sid = [w \in Workers |-> NoSid]
    /\ startPage = [w \in Workers |-> ""]
    /\ endPage = [w \in Workers |-> ""]
    /\ cur = [w \in Workers |-> NoItem]
    /\ curPath = [w \in Workers |-> <<>>]
    /\ links = [w \in Workers |-> <<>>]
    /\ nodesExplored = [w \in Workers |-> 0]
    /\ outcome = [w \in Workers |-> NoOutcome]
    /\ trace = [w \in Workers |-> NoTrace]
    /\ faulted = [w \in Workers |-> FALSE]
    /\ dropped = [w \in Workers |-> FALSE]
    /\ cleanupFailed = [w \in Workers |-> FALSE]
    /\ lastOp = NoOp
    /\ pageChecks = [w \in Workers |-> <<>>]
    /\ service = NoService
    /\ adapters = NoAdapters

\* no get_links_bulk call is modelled through the client record: the searches read
\* the link graph directly
NoWiki == [redirectA |-> FALSE, pages |-> <<>>]

\* a Python dict with no key
EmptyDict == [t \in {} |-> <<>>]

NoClient == [cache |-> EmptyDict, log |-> <<>>]

IdleClient ==
    /\ wiki = NoWiki
    /\ client = NoClient

\* a served link graph, a configured max_depth of 1 up to the cap, and a link cache
\* that still holds the links of page C from an earlier search
Init ==
    /\ graph \in Graphs
    /\ maxDepth \in 1 .. MaxDepthCap
    /\ workload = Titles \X Titles
    /\ sweepsLeft = 0
    /\ linkCache = {"C"}
    /\ EmptyStore
    /\ IdleWorkers
    /\ algorithm = [w \in Workers |-> "bfs"]
    /\ faultsLeft = MaxFaults
    /\ IdleClient
    /\ task = NoTask

Next ==
    \/ FindShortestPath(1)
    \/ SearchStep(1)

Spec == Init /\ [][Next]_vars

(* ------- specification: concurrent searches, housekeeping, admin ------ *)

\* cache_cleanup_task(pattern="bfs_*"), scheduled every hour by app_periodic_tasks:
\* CacheManagementService.clear_cache_pattern -> RedisCache.clear_pattern
HousekeepingPattern == BfsStarPattern

Housekeeping ==
    /\ sweepsLeft > 0
    /\ sweepsLeft' = sweepsLeft - 1
    /\ ClearPattern(HousekeepingPattern)
    /\ TouchBy("housekeeping", Touched(HousekeepingPattern), "delete")
    /\ UNCHANGED <<graph, maxDepth, algorithm, workload, pageChecks, wiki, client, nextSid, wkVars,
                   faultsLeft, faulted,
                   dropped, cleanupFailed, task, service, adapters>>

\* the patterns an admin may post to /cache/clear; "wiki_links:*" is the default
AdminPatterns == {WikiLinksPattern, BfsStarPattern}

\* POST /cache/clear {pattern}: clear_cache -> clear_cache_pattern(pattern)
AdminClear ==
    /\ sweepsLeft > 0
    /\ sweepsLeft' = sweepsLeft - 1
    /\ \E pat \in AdminPatterns :
          /\ ClearPattern(pat)
          /\ TouchBy("admin", Touched(pat), "delete")
    /\ UNCHANGED <<graph, maxDepth, algorithm, workload, pageChecks, wiki, client, nextSid, wkVars,
                   faultsLeft, faulted,
                   dropped, cleanupFailed, task, service, adapters>>

\* A links to C and C links to B
LineGraph == [p \in Pages |-> IF p = "A" THEN <<"C">> ELSE IF p = "C" THEN <<"B">> ELSE <<>>]

\* two workers take the identical request while the hourly housekeeping and an
\* admin are active
InitConc ==
    /\ graph = LineGraph
    /\ maxDepth = MaxDepthCap
    /\ workload = {<<"A", "B">>}
    /\ sweepsLeft = MaxSweeps
    /\ linkCache = {"C"}
    /\ EmptyStore
    /\ IdleWorkers
    /\ algorithm = [w \in Workers |-> "bfs"]
    /\ faultsLeft = MaxFaults
    /\ IdleClient
    /\ task = NoTask

NextConc ==
    \/ \E w \in Workers : FindShortestPath(w)
    \/ \E w \in Workers : SearchStep(w)
    \/ Housekeeping
    \/ AdminClear

SpecConc == InitConc /\ [][NextConc]_vars

(* ------------ specification: the two engines side by side ------------ *)

\* ServiceFactory.create_pathfinding_service: algorithm "bfs" builds the
\* RedisBasedBFSPathFinder, "bidirectional" the BidirectionalBFSPathFinder, both
\* with the configured MAX_SEARCH_DEPTH
Algorithms == {"bfs", "bidirectional"}

\* the requests put to both engines
EngineRequests == {<<"A", "B">>, <<"C", "B">>, <<"B", "A">>, <<"A", "A">>, <<"", "B">>}

\* worker 1 holds the unidirectional engine, worker 2 the bidirectional one, built
\* with the same max_depth over the same upstream and store
InitEngines ==
    /\ graph \in {TwoHopGraph, ForkGraph, ChainGraph, LineGraph}
    /\ maxDepth \in 1 .. MaxDepthCap
    /\ workload = EngineRequests
    /\ sweepsLeft = 0
    /\ linkCache = {}
    /\ EmptyStore
    /\ IdleWorkers
    /\ algorithm \in {a \in [Workers -> Algorithms] : a[1] = "bfs" /\ a[2] = "bidirectional"}
    /\ faultsLeft = 0
    /\ IdleClient
    /\ task = NoTask

\* the request is put to the unidirectional engine and, when that call is over, to
\* the bidirectional one
NextEngines ==
    \/ FindShortestPath(1)
    \/ SearchStep(1)
    \/ pc[1] = "done" /\ FindShortestPath(2)
    \/ SearchStep(2)

SpecEngines == InitEngines /\ [][NextEngines]_vars

(* ------------- specification: a worker dies in a search --------------- *)

\* ttl=3600 of the cache_service.set calls of the search
SessionTtl == 3600
\* what Redis reports (TTL -1) for a key that was given no expiry
Persistent == 0 - 1

\* the expiry the search gives the keys of a namespace: the visited and path keys
\* are written by RedisCache.set(key, value, ttl=3600), i.e. SETEX; the queue is
\* written by RedisQueue.push, an RPUSH that is followed by no EXPIRE
KeyTtl(ns) == IF ns \in {"bfs_visited", "bfs_paths"} THEN SessionTtl ELSE Persistent

\* the store holds the key of namespace ns, session s and (but for the queue) title t
HasKey(s, ns, t) ==
    CASE ns = "bfs_queue" -> queue[s] # <<>>
      [] ns = "bfs_visited" -> t \in visited[s]
      [] ns = "bfs_paths" -> paths[s][t] # <<>>

\* the worker process is killed inside the search or its cleanup (hard time limit,
\* OOM, SIGKILL): the finally block does not run to its end
WorkerDies(w) ==
    /\ pc[w] \notin {"idle", "done", "dead"}
    /\ Goto(w, "dead")
    /\ UNCHANGED <<envVars, storeVars, nextSid, sid, startPage, endPage, cur, curPath, links,
                   nodesExplored, outcome, faultsLeft, faulted, dropped, cleanupFailed,
                   lastOp, task, trace>>

\* Redis drops a key of an orphaned session whose time to live ran out; a key
\* without an expiry is never dropped
ExpireKey(s) ==
    /\ \E w \in Workers : sid[w] = s /\ pc[w] = "dead"
    /\ \E ns \in {n \in SessionNamespaces : KeyTtl(n) # Persistent}, t \in Pages :
          /\ HasKey(s, ns, t)
          /\ queue' = IF ns = "bfs_queue" THEN [queue EXCEPT ![s] = <<>>] ELSE queue
          /\ visited' = IF ns = "bfs_visited" THEN [visited EXCEPT ![s] = @ \ {t}]
                        ELSE visited
          /\ paths' = IF ns = "bfs_paths" THEN [paths EXCEPT ![s][t] = <<>>] ELSE paths
    /\ TouchBy("store", {s}, "expire")
    /\ UNCHANGED <<envVars, linkCache, pathCache, nextSid, wkVars, faultsLeft, faulted,
                   dropped, cleanupFailed, task>>

\* one worker searches from A to B on one of the named graphs and may be killed
InitOrphan ==
    /\ graph \in {TwoHopGraph, ForkGraph, ChainGraph}
    /\ maxDepth = MaxDepthCap
    /\ workload = {<<"A", "B">>}
    /\ sweepsLeft = 0
    /\ linkCache = {}
    /\ EmptyStore
    /\ IdleWorkers
    /\ algorithm = [w \in Workers |-> "bfs"]
    /\ faultsLeft = 0
    /\ IdleClient
    /\ task = NoTask

NextOrphan ==
    \/ FindShortestPath(1)
    \/ SearchStep(1)
    \/ WorkerDies(1)
    \/ \E s \in Sids : ExpireKey(s)

\* time goes on: a key whose time to live ran out is dropped
SpecOrphan ==
    InitOrphan /\ [][NextOrphan]_vars /\ WF_vars(\E s \in Sids : ExpireKey(s))

(* ---------- specification: one search that meets no failure ---------- *)

\* every finite link graph of the model, cycles included; the store and the
\* upstream answer every call. The graphs over the core pages are closed under
\* renaming the pages, so the searches start at A.
InitTerminate ==
    /\ graph \in Graphs
    /\ maxDepth \in 1 .. MaxDepthCap
    /\ workload = {"A"} \X Titles
    /\ sweepsLeft = 0
    /\ linkCache = {"C"}
    /\ EmptyStore
    /\ IdleWorkers
    /\ algorithm = [w \in Workers |-> "bfs"]
    /\ faultsLeft = 0
    /\ IdleClient
    /\ task = NoTask

\* the worker that runs find_shortest_path keeps running it: every call of the
\* search returns, so its next step is taken
SpecTerminate == InitTerminate /\ [][Next]_vars /\ WF_vars(SearchStep(1))

(* ---------------------- task runtime: find_path_task ------------------ *)

\* retry_kwargs={"max_retries": 3, ...}
MaxRetries == 3

\* the except clause that leads to a retry
Retryable == {"RequestException", "CacheConnectionError", "WikipediaAPIError"}

\* SearchRequest.validate: both titles non-empty and different
Validate(s, e) == s # "" /\ e # "" /\ s # e

RetriesLeftInclusive(r) == r <= MaxRetries

\* retry_count < max_retries, retry_count being self.request.retries
RetriesLeft(r) == r < MaxRetries

\* the code of the FAILURE dictionary each except clause of the task returns
FailureCode(e) ==
    IF e = "PathNotFoundError" THEN "PATH_NOT_FOUND"
    ELSE IF e = "InvalidPageError" THEN "INVALID_PAGE"
    ELSE IF e \in Retryable THEN "MAX_RETRIES_EXCEEDED"
    ELSE "INTERNAL_ERROR"

\* an exception reaches the except clauses of the task: a retryable one with
\* retries left re-queues the task through self.retry, which counts the retry;
\* everything else returns a FAILURE dictionary
TaskRaised(e, found) ==
    IF e \in Retryable /\ RetriesLeft(task.retries)
    THEN [task EXCEPT !.state = "RETRY", !.prev = task.state, !.retries = @ + 1,
                      !.stage = "none",
                      !.found = found, !.history = Append(@, e)]
    ELSE [task EXCEPT !.state = "FAILURE", !.prev = task.state, !.code = FailureCode(e),
                      !.stage = "none",
                      !.found = found, !.history = Append(@, e)]

\* the task returns the SUCCESS dictionary with the path
TaskSucceeded(path, found) ==
    [task EXCEPT !.state = "SUCCESS", !.prev = task.state, !.path = path,
                 !.stage = "none", !.progress = Append(@, 90),
                 !.found = found, !.history = Append(@, "path")]

\* the task returns a FAILURE dictionary before the search
TaskRejected(code, what) ==
    [task EXCEPT !.state = "FAILURE", !.prev = task.state, !.code = code,
                 !.stage = "none", !.history = Append(@, what)]

\* a worker starts an attempt of the queued or re-queued task: update_state PROGRESS
TaskBegin(w) ==
    /\ task.state \in {"PENDING", "RETRY"}
    /\ pc[w] \in {"idle", "done"}
    /\ task' = [task EXCEPT !.state = "PROGRESS", !.prev = task.state,
                            !.attempts = @ + 1, !.stage = "validate", !.found = <<>>,
                            !.progress = <<0>>, !.fine = 0]
    /\ UNCHANGED <<envVars, storeVars, nextSid, wkVars, faultsLeft, faulted, dropped,
                   cleanupFailed, lastOp>>

\* the request validation, update_state with current 10, validate_pages, which asks
\* page_exists for both pages, update_state with current 25
TaskValidate(w) ==
    /\ task.state = "PROGRESS" /\ task.stage = "validate"
    /\ IF ~Validate(task.start_page, task.end_page)
       THEN /\ task' = TaskRejected("INVALID_REQUEST", "invalid_request")
            /\ pageChecks' = [pageChecks EXCEPT ![w] = <<>>]
       ELSE \E startAnswer \in PageAnswers, endAnswer \in PageAnswers :
               /\ pageChecks' = [pageChecks EXCEPT ![w] =
                                    <<Check(task.start_page, startAnswer),
                                      Check(task.end_page, endAnswer)>>]
               /\ task' = IF ~PageExists(startAnswer) \/ ~PageExists(endAnswer)
                          THEN [TaskRejected("PAGE_NOT_FOUND", "page_missing") EXCEPT
                                   !.progress = Append(@, 10)]
                          ELSE [task EXCEPT !.stage = "cache_get",
                                            !.progress = @ \o <<10, 25>>]
    /\ UNCHANGED <<fixedVars, storeVars, nextSid, wkVars, faultsLeft, faulted, dropped,
                   cleanupFailed, lastOp>>

\* time.time() - start_time, in ticks
ElapsedTimes == {1, 2}

\* result.__dict__ through json.dumps and json.loads: the six fields, each a list of
\* strings, a string or a number, come back as they went in
ToDict(result) ==
    [f \in {"path", "length", "start_page", "end_page", "search_time", "nodes_explored"} |->
        result[f]]

\* PathResult(**cached_result): every field, length included, is the stored one
FromDict(d) ==
    [path |-> d["path"], length |-> d["length"], start_page |-> d["start_page"],
     end_page |-> d["end_page"], search_time |-> d["search_time"],
     nodes_explored |-> d["nodes_explored"]]

\* no stored result is used
ResultNeverHit(cached) == FALSE

\* if cached_result:
ResultHit(cached) == cached # NoResult

\* PathFindingService.find_path up to the engine call: the result-cache lookup, a
\* hit returning the cached path, a miss entering find_shortest_path
TaskCacheGet(w) ==
    /\ task.state = "PROGRESS" /\ task.stage = "cache_get"
    /\ \/ /\ faultsLeft > 0
          /\ faultsLeft' = faultsLeft - 1
          /\ task' = TaskRaised(CacheGetRaises, <<>>)
          /\ UNCHANGED <<nextSid, wkVars, faulted, dropped, cleanupFailed, pageChecks>>
       \/ /\ ResultHit(pathCache[ResultKey(task.start_page, task.end_page)])
          /\ task' = TaskSucceeded(
                        FromDict(pathCache[ResultKey(task.start_page, task.end_page)]).path,
                        <<>>)
          /\ UNCHANGED <<nextSid, wkVars, faultsLeft, faulted, dropped, cleanupFailed,
                         pageChecks>>
       \/ /\ ~ResultHit(pathCache[ResultKey(task.start_page, task.end_page)])
          /\ task' = [task EXCEPT !.stage = "search"]
          /\ \E startAnswer \in PageAnswers, endAnswer \in PageAnswers :
                FindShortestPathEnter(w, task.start_page, task.end_page,
                                      startAnswer, endAnswer)
          /\ UNCHANGED faultsLeft
    /\ UNCHANGED <<fixedVars, storeVars, lastOp>>

\* find_shortest_path has returned or raised: a path is written to the result
\* cache and returned; an exception, the one of a failed cache write included,
\* propagates to the task
TaskAfterSearch(w) ==
    /\ task.state = "PROGRESS" /\ task.stage = "search"
    /\ pc[w] = "done"
    /\ \/ /\ outcome[w].kind = "path"
          /\ \E search_time \in ElapsedTimes :
                pathCache' = [pathCache EXCEPT ![ResultKey(task.start_page, task.end_page)] =
                                 ToDict(PathResult(outcome[w].path, task.start_page,
                                                   task.end_page, search_time,
                                                   nodesExplored[w]))]
          /\ task' = TaskSucceeded(outcome[w].path, outcome[w].path)
          /\ UNCHANGED faultsLeft
       \/ /\ outcome[w].kind = "path"
          /\ faultsLeft > 0
          /\ faultsLeft' = faultsLeft - 1
          /\ task' = TaskRaised(CacheSetRaises, outcome[w].path)
          /\ UNCHANGED pathCache
       \/ /\ outcome[w].kind # "path"
          /\ task' = TaskRaised(outcome[w].kind, <<>>)
          /\ UNCHANGED <<pathCache, faultsLeft>>
    /\ UNCHANGED <<envVars, queue, visited, paths, linkCache, nextSid, wkVars, faulted,
                   dropped, cleanupFailed, lastOp>>

\* A links to B
OneLinkGraph == [p \in Pages |-> IF p = "A" THEN <<"B">> ELSE <<>>]

\* A links to C, which links to nothing
DeadEndGraph == [p \in Pages |-> IF p = "A" THEN <<"C">> ELSE <<>>]

TaskGraphs == {OneLinkGraph, LineGraph, DeadEndGraph}

\* the requests a client may submit as a task
TaskRequests == {<<"A", "B">>, <<"A", "A">>, <<"", "B">>}

\* a result cached by an earlier request
CachedResults ==
    {[k \in ResultKeys |-> NoResult],
     [k \in ResultKeys |->
         IF k = ResultKey("A", "B") THEN ToDict(PathResult(<<"A", "B">>, "A", "B", 1, 1))
         ELSE NoResult]}

\* one task has been queued by find_path_task.delay(start, end)
InitTask ==
    /\ graph \in TaskGraphs
    /\ maxDepth \in 1 .. MaxDepthCap
    /\ workload = TaskRequests
    /\ sweepsLeft = 0
    /\ linkCache = {}
    /\ queue = [s \in Sids |-> <<>>]
    /\ visited = [s \in Sids |-> {}]
    /\ paths = [s \in Sids |-> [p \in Pages |-> <<>>]]
    /\ pathCache \in CachedResults
    /\ IdleWorkers
    /\ algorithm = [w \in Workers |-> "bfs"]
    /\ faultsLeft = MaxTaskFaults
    /\ IdleClient
    /\ \E r \in TaskRequests :
          task = [NoTask EXCEPT !.state = "PENDING", !.start_page = r[1],
                                !.end_page = r[2]]

NextTask ==
    \/ TaskBegin(1)
    \/ TaskValidate(1)
    \/ TaskCacheGet(1)
    \/ TaskAfterSearch(1)
    \/ SearchStep(1)

SpecTask == InitTask /\ [][NextTask]_vars

(* ------------ specification: one attempt and its soft time limit ------- *)

\* A links to C, C to D and D to B
ThreeHopGraph ==
    [NoLinks EXCEPT !["A"] = <<"C">>, !["C"] = <<"D">>, !["D"] = <<"B">>]

\* the soft time limit of the attempt runs out: SoftTimeLimitExceeded is raised at
\* the statement the worker is executing. In the task body and in the engine
\* outside its try blocks it propagates (through the finally clause of
\* find_shortest_path) to the "except Exception" of the task; inside the try
\* around get_links_bulk and inside the try of the link loop it is caught, logged
\* and the loop continues; inside _cleanup_search_state it is caught and logged
SoftTimeLimit(w) ==
    /\ task.state = "PROGRESS"
    /\ ~task.signalled
    /\ IF task.stage # "search" \/ pc[w] = "done"
       THEN /\ task' = [TaskRaised("SoftTimeLimitExceeded", <<>>) EXCEPT
                           !.signalled = TRUE, !.popsAtSignal = nodesExplored[w]]
            /\ UNCHANGED <<pc, outcome, links, dropped, cleanupFailed>>
       ELSE /\ task' = [task EXCEPT !.signalled = TRUE,
                                    !.popsAtSignal = nodesExplored[w]]
            /\ \/ /\ pc[w] \in {"seed_push", "seed_visited", "seed_path", "loop", "pop",
                                "get_path", "link", "log_len"}
                  /\ Raise(w, "SoftTimeLimitExceeded")
                  /\ UNCHANGED <<links, dropped, cleanupFailed>>
               \/ /\ pc[w] = "get_links"
                  /\ Goto(w, "loop")
                  /\ dropped' = [dropped EXCEPT ![w] = TRUE]
                  /\ UNCHANGED <<outcome, links, cleanupFailed>>
               \/ /\ pc[w] \in {"link", "mark", "store_path", "enqueue"}
                  /\ links[w] # <<>>
                  /\ Goto(w, "link")
                  /\ links' = [links EXCEPT ![w] = Tail(@)]
                  /\ dropped' = [dropped EXCEPT ![w] = TRUE]
                  /\ UNCHANGED <<outcome, cleanupFailed>>
               \/ /\ pc[w] \in {"cleanup_queue", "cleanup_visited", "cleanup_paths"}
                  /\ Goto(w, "done")
                  /\ cleanupFailed' = [cleanupFailed EXCEPT ![w] = TRUE]
                  /\ UNCHANGED <<outcome, links, dropped>>
    /\ UNCHANGED <<envVars, storeVars, nextSid, sid, startPage, endPage, cur, curPath,
                   nodesExplored, faultsLeft, faulted, lastOp, trace>>

\* one task for (A, B) on the three-hop graph or the fork, the store and the
\* upstream healthy
InitAttempt ==
    /\ graph \in {ThreeHopGraph, ForkGraph}
    /\ maxDepth = MaxDepthCap
    /\ workload = {<<"A", "B">>}
    /\ sweepsLeft = 0
    /\ linkCache = {}
    /\ EmptyStore
    /\ IdleWorkers
    /\ algorithm = [w \in Workers |-> "bfs"]
    /\ faultsLeft = 0
    /\ IdleClient
    /\ task = [NoTask EXCEPT !.state = "PENDING", !.start_page = "A", !.end_page = "B"]

NextAttempt ==
    \/ TaskBegin(1)
    \/ TaskValidate(1)
    \/ TaskCacheGet(1)
    \/ TaskAfterSearch(1)
    \/ SearchStep(1)
    \/ SoftTimeLimit(1)

SpecAttempt == InitAttempt /\ [][NextAttempt]_vars

(* ------------- specification: calls of PathFindingService ------------- *)

\* one find_path call as the log keeps it: the request, the entry found under its
\* result key, what the engine returned or raised ("none" when it was not called),
\* what find_path raised ("none" when it returned), the PathResult returned, and
\* the entry under the result key when the call ended
FindPathRecord(s, e, before, engine, raised, result, after) ==
    [start_page |-> s, end_page |-> e, before |-> before, engine |-> engine,
     raised |-> raised, result |-> result, after |-> after]

\* find_path returns or raises
FindPathDone(s, e, before, engine, raised, result, after) ==
    service' = [stage |-> "idle", start_page |-> "", end_page |-> "",
                log |-> Append(service.log,
                           FindPathRecord(s, e, before, engine, raised, result, after))]

\* the error comes out as another one
ReraisedAsInternal(e) == "InternalError"

\* the bare raise of the except clause
Reraised(e) == e

\* find_path up to the engine call: validate, the result-cache lookup, a hit
\* returning PathResult(**cached_result), a miss entering find_shortest_path
FindPath(w) ==
    /\ service.stage = "idle"
    /\ Len(service.log) < MaxFinds
    /\ pc[w] \in {"idle", "done"}
    /\ \E r \in workload :
          LET s == r[1]
              e == r[2]
              cached == pathCache[ResultKey(s, e)]
          IN  \/ /\ ~Validate(s, e)
                 /\ FindPathDone(s, e, cached, "none", "InvalidPageError", NoResult, cached)
                 /\ UNCHANGED <<nextSid, wkVars, faultsLeft, faulted, dropped,
                                cleanupFailed, pageChecks>>
              \/ /\ Validate(s, e)
                 /\ faultsLeft > 0
                 /\ faultsLeft' = faultsLeft - 1
                 /\ FindPathDone(s, e, cached, "none", CacheGetRaises, NoResult, cached)
                 /\ UNCHANGED <<nextSid, wkVars, faulted, dropped, cleanupFailed,
                                pageChecks>>
              \/ /\ Validate(s, e)
                 /\ ResultHit(cached)
                 /\ FindPathDone(s, e, cached, "none", "none", FromDict(cached), cached)
                 /\ UNCHANGED <<nextSid, wkVars, faultsLeft, faulted, dropped,
                                cleanupFailed, pageChecks>>
              \/ /\ Validate(s, e)
                 /\ ~ResultHit(cached)
                 /\ service' = [service EXCEPT !.stage = "search", !.start_page = s,
                                               !.end_page = e]
                 /\ \E startAnswer \in PageAnswers, endAnswer \in PageAnswers :
                       FindShortestPathEnter(w, s, e, startAnswer, endAnswer)
                 /\ UNCHANGED faultsLeft
    /\ UNCHANGED <<graph, maxDepth, algorithm, workload, sweepsLeft, wiki, client, storeVars, lastOp,
                   task, adapters>>

\* find_shortest_path has returned or raised: a path becomes a PathResult, which is
\* written to the result cache and returned; an exception, the one of a failed
\* cache write included, is logged and re-raised
FindPathAfterSearch(w) ==
    /\ service.stage = "search"
    /\ pc[w] = "done"
    /\ LET s == service.start_page
           e == service.end_page
           before == pathCache[ResultKey(s, e)]
       IN  \/ /\ outcome[w].kind = "path"
              /\ \E search_time \in ElapsedTimes :
                    LET result == PathResult(outcome[w].path, s, e, search_time,
                                             nodesExplored[w])
                    IN  /\ pathCache' = [pathCache EXCEPT ![ResultKey(s, e)] =
                                            ToDict(result)]
                        /\ FindPathDone(s, e, before, "path", "none", result,
                                        ToDict(result))
              /\ UNCHANGED faultsLeft
           \/ /\ outcome[w].kind = "path"
              /\ faultsLeft > 0
              /\ faultsLeft' = faultsLeft - 1
              /\ FindPathDone(s, e, before, "path", CacheSetRaises, NoResult, before)
              /\ UNCHANGED pathCache
           \/ /\ outcome[w].kind # "path"
              /\ FindPathDone(s, e, before, outcome[w].kind, Reraised(outcome[w].kind),
                              NoResult, before)
              /\ UNCHANGED <<pathCache, faultsLeft>>
    /\ UNCHANGED <<graph, maxDepth, algorithm, workload, sweepsLeft, pageChecks, wiki, client, queue,
                   visited, paths, linkCache, nextSid, wkVars, faulted, dropped,
                   cleanupFailed, lastOp, task, adapters>>

\* the one-hour TTL of a path:{start}:{end} entry runs out
ResultExpires ==
    /\ \E k \in ResultKeys :
          /\ ResultHit(pathCache[k])
          /\ pathCache' = [pathCache EXCEPT ![k] = NoResult]
    /\ UNCHANGED <<envVars, queue, visited, paths, linkCache, nextSid, wkVars, faultsLeft,
                   faulted, dropped, cleanupFailed, lastOp, task>>

\* A links to C, C links to B, and the page "A:B" links to C
ServiceGraph ==
    [NoLinks EXCEPT !["A"] = <<"C">>, !["C"] = <<"B">>, !["A:B"] = <<"C">>]

\* the requests callers pass to find_path; two of them name a title with a colon
ServiceRequests == {<<"A", "B">>, <<"A:B", "C">>, <<"A", "B:C">>, <<"A", "A">>}

\* a service with an empty result cache
InitService ==
    /\ graph = ServiceGraph
    /\ maxDepth \in 1 .. MaxDepthCap
    /\ workload = ServiceRequests
    /\ sweepsLeft = 0
    /\ linkCache = {}
    /\ EmptyStore
    /\ IdleWorkers
    /\ algorithm = [w \in Workers |-> "bfs"]
    /\ faultsLeft = MaxFaults
    /\ IdleClient
    /\ task = NoTask

NextService ==
    \/ FindPath(1)
    \/ FindPathAfterSearch(1)
    \/ SearchStep(1)
    \/ ResultExpires

SpecService == InitService /\ [][NextService]_vars

(* --------------- specification: calls of the two adapters ------------- *)

\* everything but the adapters record
systemVars ==
    <<graph, maxDepth, algorithm, workload, sweepsLeft, pageChecks, wiki, client, service, storeVars,
      nextSid, wkVars, faultsLeft, faulted, dropped, cleanupFailed, lastOp, task>>

\* json.dumps and json.loads of a queue item or a cache value
Dumps(item) == <<"json", item>>
Loads(serialized) == serialized[2]

\* one adapter call: when the Redis command fails nothing is stored and the except
\* clause decides what leaves the call; otherwise the command takes effect
AdapterCall(op, down, kv, list, returns) ==
    /\ Len(adapters.calls) < MaxOps
    /\ adapters' =
          [adapters EXCEPT
              !.kv = IF down THEN @ ELSE kv,
              !.list = IF down THEN @ ELSE list,
              !.calls = Append(@, [op |-> op, failed |-> down,
                                   raised |-> IF down THEN OnRedisError(op).raises
                                              ELSE "none",
                                   returned |-> IF down THEN OnRedisError(op).returns
                                                ELSE returns])]
    /\ UNCHANGED systemVars

\* RedisCache on the key k
KvGet ==
    \E down \in BOOLEAN :
        AdapterCall("get", down, adapters.kv, adapters.list,
                    IF adapters.kv = <<>> THEN "None" ELSE "value")
KvSet ==
    \E down \in BOOLEAN :
        AdapterCall("set", down, <<Dumps(1)>>, adapters.list, "None")
KvDelete ==
    \E down \in BOOLEAN : AdapterCall("delete", down, <<>>, adapters.list, "None")
KvExists ==
    \E down \in BOOLEAN :
        AdapterCall("exists", down, adapters.kv, adapters.list,
                    IF adapters.kv = <<>> THEN "False" ELSE "True")
KvClearPattern ==
    \E down \in BOOLEAN :
        AdapterCall("clear_pattern", down, <<>>, adapters.list,
                    IF adapters.kv = <<>> THEN "0" ELSE "1")
KvGetTtl ==
    \E down \in BOOLEAN :
        AdapterCall("get_ttl", down, adapters.kv, adapters.list,
                    IF adapters.kv = <<>> THEN "-2" ELSE "ttl")
KvIncrement ==
    \E down \in BOOLEAN :
        AdapterCall("increment", down,
                    IF adapters.kv = <<>> THEN <<Dumps(1)>>
                    ELSE <<Dumps(Loads(adapters.kv[1]) + 1)>>,
                    adapters.list, "value")
KvSetIfNotExists ==
    \E down \in BOOLEAN :
        AdapterCall("set_if_not_exists", down,
                    IF adapters.kv = <<>> THEN <<Dumps(1)>> ELSE adapters.kv,
                    adapters.list, IF adapters.kv = <<>> THEN "True" ELSE "False")

\* RedisQueue on the list q
QPush ==
    \E down \in BOOLEAN :
        AdapterCall("push", down, adapters.kv, QueuePush(adapters.list, Dumps(1)), "None")
QPushFront ==
    \E down \in BOOLEAN :
        AdapterCall("push_front", down, adapters.kv, <<Dumps(1)>> \o adapters.list, "None")
QPop ==
    \E down \in BOOLEAN :
        AdapterCall("pop", down, adapters.kv,
                    IF adapters.list = <<>> THEN <<>> ELSE QueueRest(adapters.list),
                    IF adapters.list = <<>> THEN "None" ELSE "value")
QLength ==
    \E down \in BOOLEAN :
        AdapterCall("length", down, adapters.kv, adapters.list, "value")
QClear ==
    \E down \in BOOLEAN : AdapterCall("clear", down, adapters.kv, <<>>, "None")
\* an empty batch returns before any Redis command
QPushBatch ==
    \E items \in {<<>>, <<1, 2>>} : \E down \in BOOLEAN :
        /\ items = <<>> => ~down
        /\ AdapterCall("push_batch", down, adapters.kv,
                       adapters.list \o [i \in DOMAIN items |-> Dumps(items[i])], "None")
\* the counts pop_batch is called with
PopBatchCounts == {0 - 1, 0, 1, 2}
\* the LPOP commands of pop_batch(q, count) on a list of n items when none of them
\* fails: none for count <= 0, else one per item up to count and the one answered None
LpopCommands(count, n) == IF count <= 0 THEN 0 ELSE IF n < count THEN n + 1 ELSE count
\* the items the call took off the list: a failing LPOP ends the loop after the
\* items of the LPOPs before it
LpopsDone(count, n, failAt) ==
    IF failAt > 0 THEN failAt - 1
    ELSE IF count <= 0 THEN 0 ELSE IF n < count THEN n ELSE count
\* count <= 0 returns [] before any Redis command; otherwise lpop until the list
\* is empty or count items are popped; failAt = k > 0: the k-th LPOP raises
\* RedisError, the except clause raises CacheConnectionError and the local list
\* items is dropped
QPopBatch ==
    \E count \in PopBatchCounts :
      \E failAt \in 0 .. LpopCommands(count, Len(adapters.list)) :
        LET n == Len(adapters.list)
            done == LpopsDone(count, n, failAt)
            down == failAt > 0
        IN  /\ Len(adapters.calls) < MaxOps
            /\ adapters' =
                  [adapters EXCEPT
                      !.list = SubSeq(@, done + 1, n),
                      !.calls = Append(@, [op |-> "pop_batch", failed |-> down,
                                           raised |-> IF down
                                                      THEN OnRedisError("pop_batch").raises
                                                      ELSE "none",
                                           returned |-> IF down
                                                        THEN OnRedisError("pop_batch").returns
                                                        ELSE "value"]),
                      !.lastBatch =
                          [count |-> count, before |-> adapters.list,
                           items |-> IF down THEN <<>>
                                     ELSE [i \in 1 .. done |-> Loads(adapters.list[i])],
                           after |-> SubSeq(adapters.list, done + 1, n),
                           raised |-> IF down THEN OnRedisError("pop_batch").raises
                                      ELSE "none"]]
            /\ UNCHANGED systemVars
QPeek ==
    \E down \in BOOLEAN :
        AdapterCall("peek", down, adapters.kv, adapters.list,
                    IF adapters.list = <<>> THEN "None" ELSE "value")

\* an empty Redis behind the two adapters
InitAdapters ==
    /\ graph = OneLinkGraph
    /\ maxDepth = MaxDepthCap
    /\ workload = {}
    /\ sweepsLeft = 0
    /\ linkCache = {}
    /\ EmptyStore
    /\ IdleWorkers
    /\ algorithm = [w \in Workers |-> "bfs"]
    /\ faultsLeft = 0
    /\ IdleClient
    /\ task = NoTask

NextAdapters ==
    \/ KvGet \/ KvSet \/ KvDelete \/ KvExists \/ KvClearPattern \/ KvGetTtl
    \/ KvIncrement \/ KvSetIfNotExists
    \/ QPush \/ QPushFront \/ QPop \/ QLength \/ QClear \/ QPushBatch \/ QPopBatch
    \/ QPeek

SpecAdapters == InitAdapters /\ [][NextAdapters]_vars

(* ------------- specification: concurrent clients of one queue --------- *)

\* one Redis command per item
PushBatchOneByOne(items) == [i \in DOMAIN items |-> <<items[i]>>]

\* the Redis commands of push_batch(items): one RPUSH that carries every item
PushBatchCommands(items) == <<items>>

\* RPUSH q v1 .. vn takes effect: Redis runs a command as a whole, the values are
\* appended in the order given
Rpush(values) ==
    [adapters EXCEPT
        !.list = @ \o [i \in DOMAIN values |-> Dumps(values[i])],
        !.order = @ \o values]

\* a client calls push(q, item) with a fresh item
ClientPush(c) ==
    /\ adapters.inflight[c] = <<>>
    /\ adapters.started < MaxQueueOps
    /\ adapters' =
          [adapters EXCEPT
              !.list = QueuePush(@, Dumps(adapters.made + 1)),
              !.order = Append(@, adapters.made + 1),
              !.made = @ + 1,
              !.started = @ + 1]
    /\ UNCHANGED systemVars

\* a client calls push_batch(q, [item, item]) with fresh items, or its call under
\* way sends its next command
ClientPushBatch(c) ==
    /\ IF adapters.inflight[c] # <<>>
       THEN adapters' = [Rpush(Head(adapters.inflight[c])) EXCEPT
                            !.inflight[c] = Tail(adapters.inflight[c])]
       ELSE /\ adapters.started < MaxQueueOps
            /\ LET items == <<adapters.made + 1, adapters.made + 2>>
                   commands == PushBatchCommands(items)
               IN  adapters' = [Rpush(Head(commands)) EXCEPT
                                   !.inflight[c] = Tail(commands),
                                   !.batches = @ \cup {items},
                                   !.made = @ + 2,
                                   !.started = @ + 1]
    /\ UNCHANGED systemVars

\* a client calls pop(q): LPOP, None on an empty list
ClientPop(c) ==
    /\ adapters.inflight[c] = <<>>
    /\ adapters.started < MaxQueueOps
    /\ adapters' =
          IF adapters.list = <<>> THEN [adapters EXCEPT !.started = @ + 1]
          ELSE [adapters EXCEPT
                   !.list = QueueRest(@),
                   !.popped = Append(@, Loads(QueueFront(adapters.list))),
                   !.started = @ + 1]
    /\ UNCHANGED systemVars

NextQueue ==
    \E c \in Clients : ClientPush(c) \/ ClientPushBatch(c) \/ ClientPop(c)

SpecQueue == InitAdapters /\ [][NextQueue]_vars

(* ------------------ WikipediaClient: get_links_bulk ------------------- *)

\* the titles a caller passes: "a" is a title the API normalizes to "A"
RawTitles == {"a", "A", "B"}

\* the titles pages are stored under
PageTitles == {"A", "B"}

\* the raw link lists the API serves for a page
ServedLinks == {<<>>, <<"C">>, <<"Category:C", "List of C: D", "List ofC: D">>}

PageStates ==
    {[missing |-> TRUE, links |-> <<>>]} \cup
    {[missing |-> FALSE, links |-> l] : l \in ServedLinks}

\* the upstream wikis: page A may be a redirect to page B; each page is missing or
\* has one of the served link lists
Wikis == [redirectA : BOOLEAN, pages : [PageTitles -> PageStates]]

\* the API's title normalization and redirect resolution
Normalize(t) == IF t = "a" THEN "A" ELSE t
Resolve(n) == IF n = "A" /\ wiki.redirectA THEN "B" ELSE n

Range(s) == {s[i] : i \in DOMAIN s}

\* the titles of a set in the order the API lists them
InOrder(S) == SelectSeq(<<"a", "A", "B">>, LAMBDA x : x \in S)

\* the "query" object the API answers for titles=batch with prop=links, redirects=1
Response(batch) ==
    LET named == {Normalize(t) : t \in Range(batch)}
        nseq == InOrder({t \in Range(batch) : Normalize(t) # t})
        rseq == InOrder({n \in named : Resolve(n) # n})
        fseq == InOrder({Resolve(n) : n \in named})
    IN  [normalized |-> [i \in DOMAIN nseq |-> [from |-> nseq[i], to |-> Normalize(nseq[i])]],
         redirects |-> [i \in DOMAIN rseq |-> [from |-> rseq[i], to |-> Resolve(rseq[i])]],
         pages |-> [i \in DOMAIN fseq |->
                       [title |-> fseq[i], missing |-> wiki.pages[fseq[i]].missing,
                        links |-> wiki.pages[fseq[i]].links]]]

\* ":" in link["title"] and link["title"].startswith("List of")
HasColon(t) == \E i \in DOMAIN Spelling(t) : Spelling(t)[i] = ":"
StartsWithListOf(t) == StartsWith(Spelling(t), <<"List", " ", "of">>)

\* the article_links list comprehension
ArticleLinks(raw) == SelectSeq(raw, LAMBDA t : ~HasColon(t) \/ StartsWithListOf(t))

\* d[k] = v and d.update(e)
Put(d, k, v) == [t \in DOMAIN d \cup {k} |-> IF t = k THEN v ELSE d[t]]
Update(d, e) == [t \in DOMAIN d \cup DOMAIN e |-> IF t \in DOMAIN e THEN e[t] ELSE d[t]]

\* {item["from"]: item["to"] for item in items}: a later item replaces an earlier one
MapOf(items) ==
    [f \in {items[i].from : i \in DOMAIN items} |->
        items[CHOOSE i \in DOMAIN items :
                 /\ items[i].from = f
                 /\ \A j \in DOMAIN items : items[j].from = f => j <= i].to]

\* no title is mapped back
MappedBackNothing(map, title, batch, article_links) == EmptyDict

\* the entries "results[original_title] = article_links" of one of the two loops
MappedBack(map, title, batch, article_links) ==
    [o \in {x \in DOMAIN map : map[x] = title /\ x \in Range(batch)} |-> article_links]

RECURSIVE ParsePages(_, _, _, _, _)
\* the loop over data["pages"]
ParsePages(pages, redirect_map, normalized_map, batch, results) ==
    IF pages = <<>> THEN results
    ELSE LET page == Head(pages)
             article_links == ArticleLinks(page.links)
         IN  IF page.missing
             THEN ParsePages(Tail(pages), redirect_map, normalized_map, batch, results)
             ELSE ParsePages(Tail(pages), redirect_map, normalized_map, batch,
                     Update(Update(Put(results, page.title, article_links),
                                   MappedBack(redirect_map, page.title, batch, article_links)),
                            MappedBack(normalized_map, page.title, batch, article_links)))

\* _parse_batch_response: the parsed pages, then [] for every batch title without a
\* result
ParseBatchResponse(data, batch) ==
    Update([t \in Range(batch) |-> <<>>],
           ParsePages(data.pages, MapOf(data.redirects), MapOf(data.normalized), batch,
                      EmptyDict))

\* Wikipedia API limit of titles per request
BatchSize == 50

\* one slice holding every title
BatchesUnsplit(titles) == IF titles = <<>> THEN <<>> ELSE <<titles>>

\* [page_titles[i : i + 50] for i in range(0, len(page_titles), 50)]
Batches(titles) ==
    [i \in 1 .. ((Len(titles) + BatchSize - 1) \div BatchSize) |->
        SubSeq(titles, (i - 1) * BatchSize + 1,
               IF i * BatchSize < Len(titles) THEN i * BatchSize ELSE Len(titles))]

RECURSIVE MergeBatches(_, _, _, _)
\* results.update(batch_result) over the batches that answered, in order
MergeBatches(bs, i, failed, results) ==
    IF i > Len(bs) THEN results
    ELSE MergeBatches(bs, i + 1, failed,
            IF i \in failed THEN results
            ELSE Update(results, ParseBatchResponse(Response(bs[i]), bs[i])))

BatchesRaiseIfAllFail(failed, n) == n > 0 /\ failed = 1 .. n

\* list(executor.map(self._process_batch, batches)) raises the WikipediaAPIError of
\* a failed batch
BatchesRaise(failed, n) == failed # {}

CacheHitIfNonEmpty(cache, t) == t \in DOMAIN cache /\ cache[t] # <<>>

\* cached_links is not None
CacheHit(cache, t) == t \in DOMAIN cache

\* 50 times "A", then "B": a request of two batches
LongRequest == [i \in 1 .. BatchSize + 1 |-> IF i <= BatchSize THEN "A" ELSE "B"]

\* 125 titles: a request of three batches, the last one short
BoundaryRequest ==
    [i \in 1 .. 2 * BatchSize + BatchSize \div 2 |->
        IF i % 3 = 0 THEN "B" ELSE IF i % 3 = 1 THEN "a" ELSE "A"]

\* the title lists callers pass, duplicates included
Requests ==
    {<<>>, <<"a">>, <<"A">>, <<"B">>, <<"a", "B">>, <<"A", "A">>, <<"B", "A">>,
     LongRequest}

\* requests around the batch boundaries: 0, 50, 51, 100 and 125 titles
BoundaryRequests ==
    {<<>>, SubSeq(BoundaryRequest, 1, BatchSize), LongRequest,
     SubSeq(BoundaryRequest, 1, 2 * BatchSize), BoundaryRequest}

\* the requested titles whose page the response of this call reports as missing
ReportedMissingTitles(titles) ==
    {t \in Range(titles) : wiki.pages[Resolve(Normalize(t))].missing}

\* one get_links_bulk call as the log keeps it: sent holds the sub-batches handed to
\* the executor, one HTTP call each
CallRecord(titles, before, raised, results, sent, failed, missing) ==
    [request |-> titles, before |-> before, raised |-> raised, results |-> results,
     sent |-> sent, http |-> Len(sent), failed |-> failed, missing |-> missing]

\* the state after a get_links_bulk call: the cache as the call left it, the call
\* appended to the log
Called(titles, raised, results, sent, failed, missing, newCache) ==
    client' = [cache |-> newCache,
               log |-> Append(client.log,
                          CallRecord(titles, client.cache, raised, results, sent, failed,
                                     missing))]

\* the titles of the request that miss the cache, in request order
Uncached(titles) == SelectSeq(titles, LAMBDA t : ~CacheHit(client.cache, t))

\* _fetch_from_wikipedia and what follows it, given the batches that failed: the
\* WikipediaAPIError of a failed batch, or the cache writes and the merged result
FetchAndCache(titles, failed) ==
    LET uncached == Uncached(titles)
        bs == Batches(uncached)
        hits == {t \in Range(titles) : CacheHit(client.cache, t)}
    IN  IF BatchesRaise(failed, Len(bs))
        THEN Called(titles, UpstreamRaises, EmptyDict, bs, failed, {}, client.cache)
        ELSE LET fresh == MergeBatches(bs, 1, failed, EmptyDict)
             IN  Called(titles, "none", Update([t \in hits |-> client.cache[t]], fresh),
                        bs, failed, ReportedMissingTitles(uncached),
                        Update(client.cache, fresh))

\* get_links_bulk(titles): the cache lookups, the batched fetch of the misses, the
\* cache writes of everything fetched, the merged result
GetLinksBulk ==
    /\ Len(client.log) < MaxCalls
    /\ \E titles \in workload :
          \/ /\ titles = <<>>
             /\ Called(titles, "none", EmptyDict, <<>>, {}, {}, client.cache)
          \/ \* a cache lookup fails
             /\ titles # <<>>
             /\ Called(titles, CacheGetRaises, EmptyDict, <<>>, {}, {}, client.cache)
          \/ \* every lookup answers; any of the batches may fail
             /\ titles # <<>>
             /\ \E failed \in SUBSET DOMAIN Batches(Uncached(titles)) :
                   FetchAndCache(titles, failed)
          \/ \* every batch answers; a cache write fails after some keys were stored
             /\ titles # <<>>
             /\ Uncached(titles) # <<>>
             /\ LET bs == Batches(Uncached(titles))
                    fresh == MergeBatches(bs, 1, {}, EmptyDict)
                IN  \E written \in SUBSET DOMAIN fresh :
                       /\ written # DOMAIN fresh
                       /\ Called(titles, CacheSetRaises, EmptyDict, bs, {},
                                 ReportedMissingTitles(Uncached(titles)),
                                 Update(client.cache, [t \in written |-> fresh[t]]))
    /\ UNCHANGED <<graph, maxDepth, algorithm, workload, sweepsLeft, pageChecks, wiki, storeVars,
                   nextSid, wkVars, faultsLeft, faulted, dropped, cleanupFailed, lastOp,
                   task, service, adapters>>

\* the upstream wikis of the model: when A redirects to B the API serves no page A
ServedWikis == {w \in Wikis : w.redirectA => w.pages["A"].missing}

\* the wiki_links entries an earlier call left: none, or the links of page B
WarmCaches ==
    IF wiki.pages["B"].missing THEN {EmptyDict}
    ELSE {EmptyDict, [t \in {"B"} |-> ArticleLinks(wiki.pages["B"].links)]}

\* a client with a cache service, in front of any of the wikis
InitClient ==
    /\ graph = OneLinkGraph
    /\ maxDepth = MaxDepthCap
    /\ workload = Requests
    /\ sweepsLeft = 0
    /\ linkCache = {}
    /\ EmptyStore
    /\ IdleWorkers
    /\ algorithm = [w \in Workers |-> "bfs"]
    /\ faultsLeft = 0
    /\ task = NoTask
    /\ wiki \in ServedWikis
    /\ \E cache \in WarmCaches : client = [cache |-> cache, log |-> <<>>]

NextClient == GetLinksBulk

SpecClient == InitClient /\ [][NextClient]_vars

\* a client with a cache service and callers that ask for long title lists; page B
\* exists, page A exists or redirects to B
InitFetch ==
    /\ graph = OneLinkGraph
    /\ maxDepth = MaxDepthCap
    /\ workload = BoundaryRequests
    /\ sweepsLeft = 0
    /\ linkCache = {}
    /\ EmptyStore
    /\ IdleWorkers
    /\ algorithm = [w \in Workers |-> "bfs"]
    /\ faultsLeft = 0
    /\ task = NoTask
    /\ wiki \in {w \in ServedWikis : w.pages["B"].links = <<"C">> /\ ~w.pages["B"].missing
                                     /\ w.pages["A"].links = <<>>}
    /\ \E cache \in WarmCaches : client = [cache |-> cache, log |-> <<>>]

SpecFetch == InitFetch /\ [][NextClient]_vars

(* ============================== claims ================================ *)

\* the pages reachable from s over at most k links of g
RECURSIVE ReachWithin(_, _, _)
ReachWithin(g, s, k) ==
    IF k < 0 THEN {}
    ELSE IF k = 0 THEN {s}
    ELSE LET r == ReachWithin(g, s, k - 1)
         IN  r \cup UNION {{g[p][i] : i \in DOMAIN g[p]} : p \in r}
\* g has a path from s to e of at most k links
HasPathWithin(g, s, e, k) == e \in ReachWithin(g, s, k)

\* the searches that got as far as a session and have returned or raised
Finished(w) == pc[w] = "done" /\ sid[w] # NoSid
Returned(w) == pc[w] = "done" /\ outcome[w].kind = "path"

\* C1: a search that met no store or upstream failure returns, when the target is
\* reachable within max_depth links, a path, and no path of the graph from start to
\* end has fewer links than the returned one.
C1_ShortestPath ==
    \A w \in Workers :
        (Finished(w) /\ ~faulted[w]) =>
            /\ HasPathWithin(graph, startPage[w], endPage[w], maxDepth)
                  => outcome[w].kind = "path"
            /\ outcome[w].kind = "path"
                  => ~HasPathWithin(graph, startPage[w], endPage[w],
                                    Len(outcome[w].path) - 2)

\* the fork graph: the search returned the two-link route although the three-link
\* route starts with a link of the start page as well
C1_Witness ==
    /\ graph = ForkGraph
    /\ Finished(1) /\ ~faulted[1]
    /\ outcome[1].path = <<"A", "C", "B">>

\* C2: a returned path begins with start, ends with end, and every page of it is in
\* the link list the upstream serves for the page before it.
C2_PathIsChainOfLinks ==
    \A w \in Workers :
        Returned(w) =>
            LET p == outcome[w].path
            IN  /\ Len(p) >= 1
                /\ p[1] = startPage[w]
                /\ p[Len(p)] = endPage[w]
                /\ \A i \in 1 .. Len(p) - 1 :
                      \E j \in DOMAIN graph[p[i]] : graph[p[i]][j] = p[i + 1]

\* a returned path over two links
C2_Witness == Returned(1) /\ Len(outcome[1].path) = 3

\* C3 as claimed: with no path of at most max_depth links, the search raises
\* PathNotFoundError (checked on searches without failures).
C3_NoPathWithinDepthRaises ==
    \A w \in Workers :
        (Finished(w) /\ ~faulted[w]
           /\ ~HasPathWithin(graph, startPage[w], endPage[w], maxDepth))
            => outcome[w].kind = "PathNotFoundError"

\* C4: once find_shortest_path has left a session and the store took the cleanup
\* operations, the session has no queue, no visited key and no path key.
C4_SessionKeysGone ==
    \A w \in Workers :
        (Finished(w) /\ ~cleanupFailed[w]) =>
            /\ queue[sid[w]] = <<>>
            /\ visited[sid[w]] = {}
            /\ \A t \in Pages : paths[sid[w]][t] = <<>>

\* a search that expanded two vertices and so wrote keys, ended by an error, cleaned up
C4_Witness ==
    /\ Finished(1) /\ ~cleanupFailed[1]
    /\ nodesExplored[1] >= 2
    /\ outcome[1].kind = "CacheConnectionError"

\* C7 as claimed: a search that met a store or upstream failure ends with
\* WikipediaAPIError or CacheConnectionError raised, and no failure was logged and
\* passed over.
C7_FailuresReachCaller ==
    \A w \in Workers :
        /\ ~dropped[w]
        /\ (Finished(w) /\ faulted[w])
              => outcome[w].kind \in {"WikipediaAPIError", "CacheConnectionError"}

\* C5 as claimed: the keys of a session whose search is still running are written
\* or deleted by the worker running that search only.
C5_OnlyOwnerMutatesSession ==
    lastOp.kind \in {"write", "delete"} =>
        \A s \in lastOp.sids :
            \A w \in Workers : (Running(w) /\ sid[w] = s) => lastOp.worker = {w}

\* C6: two searches never share a session id, and every operation of a search,
\* its cleanup included, touches keys of its own session only.
C6_SessionsDisjoint ==
    /\ \A w1 \in Workers, w2 \in Workers :
          (w1 # w2 /\ sid[w1] # NoSid) => sid[w1] # sid[w2]
    /\ \A w \in lastOp.worker : lastOp.sids \subseteq {sid[w]}

\* worker 1 deletes keys in its cleanup while worker 2, running the identical
\* request, still holds visited keys
C6_Witness ==
    /\ lastOp.worker = {1} /\ lastOp.kind = "delete"
    /\ Running(2) /\ visited[sid[2]] # {}
    /\ startPage[1] = startPage[2] /\ endPage[1] = endPage[2]

\* what ended the latest finished attempt of the task
LastEnd == task.history[Len(task.history)]

C9_NotRetriedCodes ==
    task.history # <<>> =>
        /\ LastEnd \in {"InvalidPageError", "page_missing"}
              => (task.state = "FAILURE" /\ task.code = "INVALID_PAGE")
        /\ LastEnd = "PathNotFoundError"
              => (task.state = "FAILURE" /\ task.code = "PATH_NOT_FOUND")
        /\ LastEnd = "AttributeError"
              => (task.state = "FAILURE" /\ task.code = "INTERNAL_ERROR")
        /\ LastEnd \in {"InvalidPageError", "page_missing", "PathNotFoundError",
                        "AttributeError"}
              => task.attempts = Len(task.history)

\* C10 as claimed: when the attempts before the k-th (2 <= k <= 4) failed with a
\* retryable error and the search of the k-th found a path, the task is in SUCCESS
\* with that path after exactly k attempts.
C10_RetryThenSuccess ==
    LET k == Len(task.history)
    IN  (/\ k \in 2 .. MaxRetries + 1
         /\ task.found # <<>>
         /\ \A i \in 1 .. k - 1 : task.history[i] \in Retryable)
        => (task.state = "SUCCESS" /\ task.path = task.found /\ task.attempts = k)

\* the state the result backend holds for the task: a task function that returns a
\* dictionary, the one with status FAILURE included, has succeeded for Celery, and
\* get_task_status_route reports it under state SUCCESS
StoredState(s) == IF s = "FAILURE" THEN "SUCCESS" ELSE s

TaskStates == {"PENDING", "PROGRESS", "SUCCESS", "FAILURE", "RETRY"}

TaskEdges ==
    {<<"PENDING", "PROGRESS">>, <<"PROGRESS", "SUCCESS">>, <<"PROGRESS", "FAILURE">>,
     <<"PROGRESS", "RETRY">>, <<"RETRY", "PROGRESS">>}

\* C11 as claimed: the state of the task is one of PENDING, PROGRESS, SUCCESS,
\* FAILURE, RETRY; it was reached from the previous state along one of the five
\* listed edges (so SUCCESS and FAILURE are never left); the task is in SUCCESS only
\* with a path, and a search that ended in PathNotFound leaves it in FAILURE.
C11_TaskStateMachine ==
    /\ StoredState(task.state) \in TaskStates
    /\ task.prev # "NONE"
          => <<StoredState(task.prev), StoredState(task.state)>> \in TaskEdges
    /\ StoredState(task.state) = "SUCCESS" => task.path # <<>>
    /\ (task.history # <<>> /\ LastEnd = "PathNotFoundError")
          => StoredState(task.state) = "FAILURE"

\* a page_exists call of the current attempt met a transport failure
TransportFailureSeen(w) ==
    \E i \in DOMAIN pageChecks[w] : pageChecks[w][i].answer = "transport_error"

\* C12 as claimed: an attempt in which a page-existence lookup met a transport
\* failure of the upstream ends as a retryable failure: the task is re-queued, or
\* is in FAILURE with MAX_RETRIES_EXCEEDED when no retry remains.
C12_TransportFailureRetried ==
    (task.state \in {"SUCCESS", "FAILURE", "RETRY"} /\ TransportFailureSeen(1))
        => \/ task.state = "RETRY"
           \/ task.state = "FAILURE" /\ task.code = "MAX_RETRIES_EXCEEDED"

\* no session was allocated and the store is as it was before the call
StoreUntouched ==
    /\ EmptyStore
    /\ linkCache = {"C"}
    /\ nextSid = 1
    /\ lastOp = NoOp

\* C13: find_shortest_path(s, s) with a non-empty s returns the path [s] with
\* nodes_explored 1, creates no session and writes nothing to the store.
C13_SamePageNoStoreWrite ==
    (pc[1] = "done" /\ startPage[1] = endPage[1] /\ startPage[1] # "")
        => /\ outcome[1] = [kind |-> "path", path |-> <<startPage[1]>>]
           /\ nodesExplored[1] = 1
           /\ sid[1] = NoSid
           /\ StoreUntouched

C13_Witness ==
    pc[1] = "done" /\ startPage[1] = "A" /\ endPage[1] = "A"

\* C14 as claimed: a task for a request with start = end, both non-empty, ends in
\* SUCCESS with the singleton path [start].
C14_SamePageTaskAnswered ==
    (/\ task.start_page = task.end_page /\ task.start_page # ""
     /\ task.state \in {"SUCCESS", "FAILURE"})
        => (task.state = "SUCCESS" /\ task.path = <<task.start_page>>)

\* C15: a call with an empty title, or one whose page_exists lookup answered False
\* for the start or the end page, raises InvalidPageError, allocates no session and
\* writes no store key.
C15_InvalidPageNoSession ==
    (/\ pc[1] = "done"
     /\ \/ startPage[1] = "" \/ endPage[1] = ""
        \/ \E i \in DOMAIN pageChecks[1] : ~pageChecks[1][i].exists)
        => /\ outcome[1].kind = "InvalidPageError"
           /\ sid[1] = NoSid
           /\ StoreUntouched

\* the start page exists and the lookup of the end page answered False
C15_Witness ==
    /\ pc[1] = "done" /\ startPage[1] = "A" /\ endPage[1] = "B"
    /\ Len(pageChecks[1]) = 2 /\ ~pageChecks[1][2].exists

\* C16: no title appears twice in a returned path.
C16_NoRepeatedTitle ==
    Returned(1) =>
        \A i \in DOMAIN outcome[1].path, j \in DOMAIN outcome[1].path :
            i # j => outcome[1].path[i] # outcome[1].path[j]

\* a two-link path was returned although its middle page links back to the start
C16_Witness ==
    /\ Returned(1) /\ Len(outcome[1].path) = 3
    /\ \E j \in DOMAIN graph[outcome[1].path[2]] :
          graph[outcome[1].path[2]][j] = outcome[1].path[1]

\* the page the upstream serves for a requested title
PageOf(t) == wiki.pages[Resolve(Normalize(t))]

\* the wiki_links cache as the i-th call left it
CacheAfter(i) == IF i = Len(client.log) THEN client.cache ELSE client.log[i + 1].before

\* C17 as claimed: the map a get_links_bulk call returns has every requested title,
\* and a requested title maps to the empty list only when the upstream reports its
\* page missing or the page has no article links.
C17_EveryTitleMapped ==
    \A i \in DOMAIN client.log :
        client.log[i].raised = "none" =>
            \A t \in Range(client.log[i].request) :
                /\ t \in DOMAIN client.log[i].results
                /\ client.log[i].results[t] = <<>>
                      => (PageOf(t).missing \/ ArticleLinks(PageOf(t).links) = <<>>)

\* C18 as claimed: a get_links_bulk call writes no wiki_links entry for a title the
\* upstream response reported as missing.
C18_MissingNeverCached ==
    \A i \in DOMAIN client.log :
        \A t \in client.log[i].missing :
            t \notin DOMAIN client.log[i].before => t \notin DOMAIN CacheAfter(i)

\* C19: a get_links_bulk call of which a batch failed raises WikipediaAPIError,
\* returns no result map and leaves the wiki_links cache as it found it.
C19_FailedBatchFailsCall ==
    \A i \in DOMAIN client.log :
        client.log[i].failed # {} =>
            /\ client.log[i].raised = UpstreamRaises
            /\ client.log[i].results = EmptyDict
            /\ CacheAfter(i) = client.log[i].before

\* a request of two batches of which the first answered and the second failed
C19_Witness ==
    \E i \in DOMAIN client.log :
        Len(client.log[i].request) > BatchSize /\ client.log[i].failed = {2}

\* calls i and i+1 are get_links_bulk([t]) for the same t and call i returned
SameTitleTwice(i) ==
    /\ i + 1 \in DOMAIN client.log
    /\ Len(client.log[i].request) = 1
    /\ client.log[i + 1].request = client.log[i].request
    /\ client.log[i].raised = "none"

\* the two calls issued one upstream request in total and returned equal lists
OneFetchEqualLists(i) ==
    /\ client.log[i].http + client.log[i + 1].http = 1
    /\ client.log[i + 1].raised = "none"
    /\ client.log[i + 1].results[client.log[i].request[1]] =
          client.log[i].results[client.log[i].request[1]]

\* C20 as claimed: two consecutive get_links_bulk([t]) calls of which the first
\* succeeds issue exactly one upstream request in total and return equal link lists.
C20_TwoCallsOneFetch ==
    \A i \in DOMAIN client.log : SameTitleTwice(i) => OneFetchEqualLists(i)

\* C20 amended: the same, for a t without a wiki_links entry before the first call
\* and a second call that returns.
C20_TwoCallsOneFetchFromColdCache ==
    \A i \in DOMAIN client.log :
        (/\ SameTitleTwice(i)
         /\ client.log[i].request[1] \notin DOMAIN client.log[i].before
         /\ client.log[i + 1].raised = "none")
            => OneFetchEqualLists(i)

\* both calls returned the empty list for a title that was not cached before
C20_Witness ==
    /\ Len(client.log) = 2 /\ SameTitleTwice(1)
    /\ client.log[1].request[1] \notin DOMAIN client.log[1].before
    /\ client.log[2].raised = "none"
    /\ client.log[1].results[client.log[1].request[1]] = <<>>

RECURSIVE Flatten(_)
\* the concatenation of a list of lists
Flatten(seqs) == IF seqs = <<>> THEN <<>> ELSE Head(seqs) \o Flatten(Tail(seqs))

\* the least number of groups of at most size members that hold n members
GroupsNeeded(n, size) == CHOOSE k \in 0 .. n : k * size >= n /\ (k = 0 \/ (k - 1) * size < n)

\* the titles call i found uncached, in request order
FetchSet(i) ==
    SelectSeq(client.log[i].request, LAMBDA t : t \notin DOMAIN client.log[i].before)

\* C21: a call whose cache lookups answered sends its n uncached titles as
\* ceil(n/50) sub-batches of at most 50 titles, none empty, whose concatenation is
\* the list of uncached titles: consecutive slices, every position exactly once.
C21_ConsecutiveSlicesOfFifty ==
    \A i \in DOMAIN client.log :
        client.log[i].raised # CacheGetRaises =>
            /\ client.log[i].http = GroupsNeeded(Len(FetchSet(i)), BatchSize)
            /\ \A b \in DOMAIN client.log[i].sent :
                   Len(client.log[i].sent[b]) \in 1 .. BatchSize
            /\ Flatten(client.log[i].sent) = FetchSet(i)

\* 125 uncached titles went out as batches of 50, 50 and 25
C21_Witness ==
    \E i \in DOMAIN client.log :
        /\ Len(FetchSet(i)) = 2 * BatchSize + BatchSize \div 2
        /\ Len(client.log[i].sent) = 3
        /\ Len(client.log[i].sent[1]) = BatchSize
        /\ Len(client.log[i].sent[2]) = BatchSize
        /\ Len(client.log[i].sent[3]) = BatchSize \div 2

\* the filter as specified: no ':' in the title, or the title starts with "List of "
KeptAsSpecified(t) ==
    (\A i \in DOMAIN Spelling(t) : Spelling(t)[i] # ":")
        \/ StartsWith(Spelling(t), <<"List", " ", "of", " ">>)

\* C22: for every page a returned call answers for, the list returned under the
\* page's title is the subsequence, in upstream order, of the served link titles
\* that hold no ':' or start with "List of " (trailing space included).
C22_FilteredSubsequence ==
    \A i \in DOMAIN client.log : \A p \in PageTitles :
        (/\ client.log[i].raised = "none"
         /\ p \in DOMAIN client.log[i].results
         /\ ~wiki.pages[p].missing)
            => client.log[i].results[p] = SelectSeq(wiki.pages[p].links, KeptAsSpecified)

\* the (from, to) pairs of the redirects and normalized lists of a response
PairsOf(data) ==
    {data.redirects[k] : k \in DOMAIN data.redirects}
        \cup {data.normalized[k] : k \in DOMAIN data.normalized}

\* the non-missing pages of a response
ReturnedPages(data) ==
    {pg \in {data.pages[k] : k \in DOMAIN data.pages} : ~pg.missing}

\* C23: in a returned call, for every (from, to) pair of a sub-batch's response
\* whose "to" is the title of a non-missing page of that response and whose "from"
\* was requested, the result holds the page's filtered link list under both titles.
C23_BothTitlesMapped ==
    \A i \in DOMAIN client.log :
        client.log[i].raised = "none" =>
            \A b \in DOMAIN client.log[i].sent :
                \A pair \in PairsOf(Response(client.log[i].sent[b])) :
                    \A pg \in ReturnedPages(Response(client.log[i].sent[b])) :
                        (pair.to = pg.title /\ pair.from \in Range(client.log[i].request))
                            => /\ pair.from \in DOMAIN client.log[i].results
                               /\ pair.to \in DOMAIN client.log[i].results
                               /\ client.log[i].results[pair.from] = ArticleLinks(pg.links)
                               /\ client.log[i].results[pair.to] = ArticleLinks(pg.links)

\* a returned call that asked for the redirect A only and got the article links of
\* page B under both titles
C23_Witness ==
    \E i \in DOMAIN client.log :
        /\ client.log[i].raised = "none" /\ client.log[i].http = 1
        /\ wiki.redirectA /\ client.log[i].request = <<"A">>
        /\ client.log[i].results["A"] # <<>>
        /\ client.log[i].results["A"] = client.log[i].results["B"]

\* the six fields of a PathResult
ResultFields == {"path", "length", "start_page", "end_page", "search_time", "nodes_explored"}

C25_EngineErrorPropagates ==
    [][(Len(service'.log) = Len(service.log) + 1
            /\ service'.log[Len(service'.log)].engine \notin {"none", "path"})
          => /\ service'.log[Len(service'.log)].raised =
                   service'.log[Len(service'.log)].engine
             /\ service'.log[Len(service'.log)].result = NoResult
             /\ pathCache' = pathCache]_vars

\* one call ended with the engine's PathNotFoundError, the next with its
\* WikipediaAPIError, and no result is cached
C25_Witness ==
    /\ Len(service.log) = 2
    /\ service.log[1].engine = "PathNotFoundError"
    /\ service.log[1].raised = "PathNotFoundError"
    /\ service.log[2].engine = "WikipediaAPIError"
    /\ service.log[2].raised = "WikipediaAPIError"
    /\ \A k \in ResultKeys : pathCache[k] = NoResult

\* C26: every PathResult find_path returns for (start, end) has path[0] = start,
\* path[-1] = end, length = len(path) and length >= 2.
C26_ReturnedResultValid ==
    \A i \in DOMAIN service.log :
        service.log[i].raised = "none" =>
            /\ service.log[i].result.length >= 2
            /\ service.log[i].result.length = Len(service.log[i].result.path)
            /\ Head(service.log[i].result.path) = service.log[i].start_page
            /\ service.log[i].result.path[Len(service.log[i].result.path)] =
                  service.log[i].end_page

\* C27: every adapter operation whose Redis command failed raised
\* CacheConnectionError: no other error and no return value.
C27_BackendErrorRaisesStoreUnavailable ==
    \A i \in DOMAIN adapters.calls :
        adapters.calls[i].failed =>
            /\ adapters.calls[i].raised = "CacheConnectionError"
            /\ adapters.calls[i].returned = ""

\* the place of an item in the order in which the pushes took effect
PlaceOf(item) == CHOOSE i \in DOMAIN adapters.order : adapters.order[i] = item

\* C28: whatever the interleaving of push, push_batch and pop, the popped items
\* are the first items of the order in which the pushes took effect, in that
\* order, and the items of one push_batch stand next to each other in the order
\* given.
C28_FifoAndContiguousBatches ==
    /\ Len(adapters.popped) <= Len(adapters.order)
    /\ adapters.popped = SubSeq(adapters.order, 1, Len(adapters.popped))
    /\ \A b \in adapters.batches : \A i, j \in DOMAIN b :
           (/\ \E k \in DOMAIN adapters.order : adapters.order[k] = b[i]
            /\ \E k \in DOMAIN adapters.order : adapters.order[k] = b[j])
               => PlaceOf(b[j]) - PlaceOf(b[i]) = j - i

\* a batch pushed between two single pushes, its first item popped already
C28_Witness ==
    /\ adapters.order = <<1, 2, 3, 4>>
    /\ <<2, 3>> \in adapters.batches
    /\ adapters.popped = <<1, 2>>

\* the attempt has ended: the task returned or was re-queued
AttemptEnded == task.state \in {"SUCCESS", "FAILURE", "RETRY"}

\* C29: once the soft time limit has fired, the search pops at most one more
\* vertex, and the attempt ends in FAILURE with the code SOFT_TIMEOUT.
C29_SoftTimeoutStopsSearch ==
    task.signalled =>
        /\ nodesExplored[1] <= task.popsAtSignal + 1
        /\ AttemptEnded => task.state = "FAILURE" /\ task.code = "SOFT_TIMEOUT"

\* the coarse checkpoints among the published values
Checkpoints == SelectSeq(task.progress, LAMBDA x : x \in {10, 25, 90})

\* C30: the published progress values never decrease, the checkpoints come in the
\* order 10, 25, 90, and an attempt that reached the 90% checkpoint published one
\* callback update for every third pop of its search.
C30_ProgressMonotoneAndFineGrained ==
    /\ \A i, j \in DOMAIN task.progress : i <= j => task.progress[i] <= task.progress[j]
    /\ Checkpoints = SubSeq(<<10, 25, 90>>, 1, Len(Checkpoints))
    /\ (task.state = "SUCCESS" /\ task.found # <<>>) =>
           task.fine = nodesExplored[1] \div 3

\* the store holds no key of session s
SessionGone(s) ==
    s \in Sids =>
        /\ queue[s] = <<>>
        /\ visited[s] = {}
        /\ \A t \in Pages : paths[s][t] = <<>>

\* C31 as claimed: once the worker of a search has died, every key of its session
\* (queue, visited markers, path entries) eventually expires from the store.
C31_OrphanedSessionExpires ==
    \A w \in Workers : [](pc[w] = "dead" => <>SessionGone(sid[w]))

\* both engines have answered the same request, with the same answers of the
\* upstream to their page_exists lookups
SameRequestAnswered ==
    /\ pc[1] = "done" /\ pc[2] = "done"
    /\ startPage[1] = startPage[2] /\ endPage[1] = endPage[2]
    /\ pageChecks[1] = pageChecks[2]

\* C32 as claimed: for the same request on the same link graph, the bidirectional
\* engine and the unidirectional engine built with the same max_depth end with the
\* same outcome, the same path returned or the same error raised.
C32_EnginesAgree == SameRequestAnswered => outcome[1] = outcome[2]

\* the sequence of the pages of a sequence of items
RECURSIVE PagesOf(_)
PagesOf(items) == IF items = <<>> THEN <<>> ELSE <<Head(items).page>> \o PagesOf(Tail(items))

\* no page stands twice in a sequence of items
DistinctPages(items) ==
    \A i \in DOMAIN items, j \in DOMAIN items : i # j => items[i].page # items[j].page

\* C33: within one session no title is pushed onto the queue more than once.
C33_NoTitleEnqueuedTwice == \A w \in Workers : DistinctPages(trace[w].pushed)

\* page A lists C twice and then itself: the search pushed A and C, once each
C33_Witness ==
    /\ graph["A"] = <<"C", "C", "A">>
    /\ startPage[1] = "A" /\ endPage[1] = "B"
    /\ Finished(1) /\ ~faulted[1]
    /\ PagesOf(trace[1].pushed) = <<"A", "C">>

\* the item has its visited marker, and its path entry has depth + 1 pages, from the
\* start page to the page of the item
MarkedWithPath(w, item) ==
    /\ item.page \in visited[sid[w]]
    /\ Len(paths[sid[w]][item.page]) = item.depth + 1
    /\ paths[sid[w]][item.page][1] = startPage[w]
    /\ paths[sid[w]][item.page][item.depth + 1] = item.page

\* C34 as claimed: at every point of a search every item of the queue has its
\* visited marker and its path entry of depth + 1 pages, from the start page to the
\* page of the item.
C34_QueuedItemsMarkedWithPath ==
    \A w \in Workers :
        sid[w] \in Sids =>
            \A i \in DOMAIN queue[sid[w]] : MarkedWithPath(w, queue[sid[w]][i])

\* the positions of the main loop of _perform_bfs_search
InLoop(w) ==
    pc[w] \in {"loop", "pop", "get_path", "get_links", "link", "mark", "store_path",
               "enqueue", "log_len"}

\* C34 amended: every item the main loop pushed (depth >= 1) has, as long as it is in
\* the queue, its visited marker and its path entry of depth + 1 pages from the
\* start page to its page; the start item, pushed before its marker and path are
\* written, has them whenever the main loop runs.
C34_LoopItemsMarkedWithPath ==
    \A w \in Workers :
        sid[w] \in Sids =>
            \A i \in DOMAIN queue[sid[w]] :
                (queue[sid[w]][i].depth >= 1 \/ InLoop(w))
                    => MarkedWithPath(w, queue[sid[w]][i])

\* on the chain an item of depth 2 waits in the queue, its path three pages long
C34_Witness ==
    /\ InLoop(1)
    /\ queue[sid[1]] # <<>>
    /\ Head(queue[sid[1]]).depth = 2
    /\ Len(paths[sid[1]][Head(queue[sid[1]]).page]) = 3

\* the place at which the page was popped
PopIndex(w, page) == CHOOSE k \in DOMAIN trace[w].popped : trace[w].popped[k].page = page

\* link a stands before link b in the list of the page
ListedBefore(page, a, b) ==
    \E i \in DOMAIN graph[page], j \in DOMAIN graph[page] :
        i < j /\ graph[page][i] = a /\ graph[page][j] = b

\* C35: the depths of the popped items never decrease and the items are popped in
\* the order they were pushed; the pushes follow the pop order of the parents and,
\* for one parent, the order of its link list.
C35_PopsInDepthAndPushOrder ==
    \A w \in Workers :
        LET popped == trace[w].popped
            pushed == trace[w].pushed
        IN  /\ \A i \in DOMAIN popped, j \in DOMAIN popped :
                  i < j => popped[i].depth <= popped[j].depth
            /\ Len(popped) <= Len(pushed)
            /\ \A i \in DOMAIN popped :
                  /\ popped[i].page = pushed[i].page
                  /\ popped[i].depth = pushed[i].depth
            /\ \A i \in DOMAIN pushed, j \in DOMAIN pushed :
                  (1 < i /\ i < j) =>
                      /\ PopIndex(w, pushed[i].parent) <= PopIndex(w, pushed[j].parent)
                      /\ pushed[i].parent = pushed[j].parent
                            => ListedBefore(pushed[i].parent, pushed[i].page, pushed[j].page)

\* from C the search pushed B and E, both of depth 1, and popped them in that order
C35_Witness ==
    /\ graph = TwoHopGraph
    /\ Finished(1) /\ ~faulted[1]
    /\ PagesOf(trace[1].popped) = <<"C", "B", "E">>
    /\ trace[1].popped[2].depth = 1 /\ trace[1].popped[3].depth = 1

\* the links of a parent taken in order: the first link equal to e ends the scan
\* with the parent's path extended by it; a link not seen before joins the frontier
RECURSIVE ScanLinks(_, _, _, _, _)
ScanLinks(ls, path, e, frontier, seen) ==
    IF ls = <<>> THEN [found |-> <<>>, frontier |-> frontier, seen |-> seen]
    ELSE IF Head(ls) = e THEN [found |-> Append(path, e), frontier |-> frontier, seen |-> seen]
    ELSE IF Head(ls) \in seen THEN ScanLinks(Tail(ls), path, e, frontier, seen)
    ELSE ScanLinks(Tail(ls), path, e, Append(frontier, Append(path, Head(ls))),
                   seen \cup {Head(ls)})

\* the parents taken in first-in first-out order down to depth bound: the path to
\* the first (parent, link) pair with link = e, <<>> when there is none
RECURSIVE FirstPairPath(_, _, _, _, _)
FirstPairPath(g, e, bound, frontier, seen) ==
    IF frontier = <<>> THEN <<>>
    ELSE LET path == Head(frontier)
         IN  IF Len(path) - 1 > bound THEN <<>>
             ELSE LET r == ScanLinks(g[path[Len(path)]], path, e, Tail(frontier), seen)
                  IN  IF r.found # <<>> THEN r.found
                      ELSE FirstPairPath(g, e, bound, r.frontier, r.seen)

\* C36: a search that met no failure returns the path to the first (parent, link)
\* pair with link = end in pop order, a function of the link graph and the order of
\* its link lists: the parent is the page popped last, and no page popped before it
\* lists the end page.
C36_FirstPairInPopOrderWins ==
    \A w \in Workers :
        (Finished(w) /\ ~faulted[w]) =>
            /\ outcome[w].path =
                  FirstPairPath(graph, endPage[w], SearchDepth(algorithm[w], maxDepth),
                                <<<<startPage[w]>>>>, {startPage[w]})
            /\ outcome[w].kind = "path" =>
                  LET popped == trace[w].popped
                      path == outcome[w].path
                  IN  /\ path[Len(path) - 1] = popped[Len(popped)].page
                      /\ \A i \in 1 .. Len(popped) - 1 :
                            \A j \in DOMAIN graph[popped[i].page] :
                                graph[popped[i].page][j] # endPage[w]

\* C and D both link to B: the path through C, the first link of A, is returned
C36_Witness ==
    /\ graph = TieGraph
    /\ Finished(1) /\ ~faulted[1]
    /\ outcome[1].path = <<"A", "C", "B">>

\* the positions of _cleanup_search_state
InCleanup(w) == pc[w] \in {"cleanup_queue", "cleanup_visited", "cleanup_paths"}

\* C37: no step of the cleanup, failed or not, changes what find_shortest_path
\* hands to its caller: from the first cleanup step to the end of the call the
\* outcome is the path the search returned or the error the search raised.
C37_CleanupKeepsOutcome ==
    [][\A w \in Workers :
          InCleanup(w) => (outcome'[w] = outcome[w] /\ (InCleanup(w)' \/ pc'[w] = "done"))]_vars

\* the search returned a path and the cleanup failed
C37_Witness ==
    /\ Finished(1) /\ cleanupFailed[1]
    /\ outcome[1].kind = "path"

\* the path the search returns when nothing but the search touches its session
UndisturbedPath(w) ==
    FirstPairPath(graph, endPage[w], SearchDepth(algorithm[w], maxDepth),
                  <<<<startPage[w]>>>>, {startPage[w]})

\* C38 as claimed: whatever the hourly bfs_* housekeeping and the admin clears do
\* while a search runs, a search that met no failure of its own and whose target is
\* reachable within the depth bound ends with a path, and that path is not longer
\* than the one it returns undisturbed.
C38_SweepsLeaveOutcome ==
    \A w \in Workers :
        (Finished(w) /\ ~faulted[w] /\ UndisturbedPath(w) # <<>>) =>
            /\ outcome[w].kind # "PathNotFoundError"
            /\ Len(outcome[w].path) <= Len(UndisturbedPath(w))

\* C39: without store or upstream failures a search that opened its session ends,
\* on every graph of the model, with a path returned or PathNotFoundError raised,
\* and at no time has it popped a title twice.
C39_SearchTerminates ==
    /\ [](DistinctPages(trace[1].popped))
    /\ [](Running(1) => <>(/\ Finished(1)
                           /\ outcome[1].kind \in {"path", "PathNotFoundError"}))

\* a cycle through the start page was walked and the search ended without a path:
\* a popped page links back to the start page
C39_Witness ==
    /\ Finished(1) /\ faultsLeft = 0 /\ ~faulted[1]
    /\ outcome[1].kind = "PathNotFoundError"
    /\ Len(trace[1].popped) >= 2
    /\ \E i \in 2 .. Len(trace[1].popped) :
          \E j \in DOMAIN graph[trace[1].popped[i].page] :
              graph[trace[1].popped[i].page][j] = startPage[1]

\* the serialized form of a list of items
RECURSIVE DumpsAll(_)
DumpsAll(items) ==
    IF items = <<>> THEN <<>> ELSE <<Dumps(Head(items))>> \o DumpsAll(Tail(items))

\* C40 as claimed: pop_batch(q, n) with n <= 0 returns [] and leaves the queue as
\* it was; a call that returns hands out the first min(n, length(q)) items in
\* first-in first-out order; and in every call, interrupted by a backend error or
\* not, the items taken off the queue are the items handed to the caller.
C40_PopBatchLosesNothing ==
    LET b == adapters.lastBatch
        n == Len(b.before)
    IN  /\ b.count <= 0 => (b.items = <<>> /\ b.after = b.before /\ b.raised = "none")
        /\ (b.count > 0 /\ b.raised = "none") =>
              b.items = [i \in 1 .. (IF n < b.count THEN n ELSE b.count) |->
                            Loads(b.before[i])]
        /\ b.before = DumpsAll(b.items) \o b.after

====
